---- MODULE Spec2Model ----
(***************************************************************************)
(* State-machine model of the transactional execution engine of            *)
(* utilities/ovn-nbctl.c: main, main_loop, run_prerequisites, do_nbctl,    *)
(* oneline_format, server_loop, server_cmd_run, server_cmd_exit and        *)
(* nbctl_client.                                                           *)
(*                                                                         *)
(* The OVSDB IDL, the db-ctl-base command handlers and the poll loop are   *)
(* external collaborators; they appear through their interface only: the   *)
(* client snapshot 'snap' of the server database 'srv', the change         *)
(* sequence number, the commit status, and the outcome a run callback      *)
(* signals (error, try_again, mutation, symbol operation, output).         *)
(***************************************************************************)
EXTENDS Integers, Sequences, FiniteSets, TLC

(* ---------------------------- bounds ----------------------------------- *)
MaxCmds == 2      \* commands per batch
MaxReqs == 2      \* "run" requests one daemon serves
MaxExt  == 2      \* database changes made by other clients
MaxOpts == 2      \* global options given to one invocation
MaxLen  == 4      \* characters of one command's output

(* --------------------------- vocabulary -------------------------------- *)
NULL == "NULL"

NBCTL_WAIT_NONE == "NBCTL_WAIT_NONE"
NBCTL_WAIT_SB   == "NBCTL_WAIT_SB"
NBCTL_WAIT_HV   == "NBCTL_WAIT_HV"

TXN_UNCOMMITTED == "TXN_UNCOMMITTED"
TXN_UNCHANGED   == "TXN_UNCHANGED"
TXN_ABORTED     == "TXN_ABORTED"
TXN_SUCCESS     == "TXN_SUCCESS"
TXN_TRY_AGAIN   == "TXN_TRY_AGAIN"
TXN_NOT_LOCKED  == "TXN_NOT_LOCKED"
TXN_ERROR       == "TXN_ERROR"

TimeoutExpired == "timeout expired"

\* Symbols a batch may name with --id=@a / refer to as @a, @b.
Symbols == {"a", "b"}

\* The commands of a batch, by the behaviour of their callbacks:
\*   set      read-write command that proposes one mutation
\*   show     read-only command that only produces output
\*   fail     run callback reports an error (e.g. entity not found)
\*   wait     run callback signals try_again until the snapshot has changed
\*   create@a creates the row named by symbol a (and proposes its insertion)
\*   ref@a    proposes a mutation holding a strong reference to symbol a
\*   ref@b    the same for symbol b, which no command creates
\*   sync     nbctl_pre_sync / nbctl_sync
\*   postfail command whose postprocess callback reports an error
\*   bogus    a name that is in no command table
\*   prefail  command whose prerequisite callback reports an error
\*   weak@a   proposes a mutation holding a weak reference to symbol a
\*   failwait run callback reports an error and, until the snapshot has
\*            changed, signals try_again as well
Kinds == {"set", "show", "fail", "wait", "create@a", "ref@a", "ref@b",
          "sync", "postfail", "bogus", "prefail", "weak@a", "failwait"}

\* The batches of at most MaxCmds commands over the registered commands R.
Batches(R) == UNION {[1..n -> R] : n \in 0..MaxCmds}

\* Global options of one invocation: --wait=sb|hv, --timeout=1, --dry-run,
\* --oneline, --format=json.
OptionNames == {"wait", "timeout", "dry_run", "oneline", "format"}

\* What else an invocation may hold: an option that is in no option
\* table, the option --db, and the environment variable OVN_NB_DAEMON set
\* to the path of a daemon's socket.
OtherOptionNames == {"unknown", "db", "OVN_NB_DAEMON"}

AllOptions == [wait : {"unset", "sb", "hv"}, timeout : {0, 1},
               dry_run : BOOLEAN, oneline : BOOLEAN,
               format : {"unset", "json"}, unknown : BOOLEAN,
               db : BOOLEAN, OVN_NB_DAEMON : BOOLEAN]

\* The options an invocation gives.
Given(o) == {n \in OptionNames \cup OtherOptionNames :
                \/ n = "wait" /\ o.wait # "unset"
                \/ n = "timeout" /\ o.timeout # 0
                \/ n = "dry_run" /\ o.dry_run
                \/ n = "oneline" /\ o.oneline
                \/ n = "format" /\ o.format # "unset"
                \/ n = "unknown" /\ o.unknown
                \/ n = "db" /\ o.db
                \/ n = "OVN_NB_DAEMON" /\ o.OVN_NB_DAEMON}

\* The invocations that give at most MaxOpts of the options O, the
\* environment variable not counted.
Options(O) == {o \in AllOptions :
                  /\ Given(o) \subseteq O
                  /\ Cardinality(Given(o) \ {"OVN_NB_DAEMON"}) <= MaxOpts}

\* The invocations over the commands and options of the registry R.
Requests(R) == [opts : Options(R.options), cmds : Batches(R.commands)]

VARIABLES
    mode,               \* "direct" or "daemon" (main, daemon_mode)
    registry,           \* the commands and options the invocations draw on
    ctx,                \* the ctl_context a run callback is called with
    rpc,                \* the client's "run" request and the daemon's reply
    pc,                 \* position of the single flow of control
    argv,               \* the invocation or request being executed
    oneline, dry_run, wait_type, force_wait, timeout,   \* file-scope config
    table_style,
    srv,                \* the database held by the server
    snap,               \* the IDL's replica of it
    idl,                \* [seqno, ever, alive] of the IDL
    seqno, idl_ready, retry,      \* locals of main_loop
    the_idl_txn,        \* the transaction of the current attempt
    symtab,             \* the symbol table of the current attempt
    c,                  \* index of the command do_nbctl is at
    output,             \* per-command output buffers
    status, next_cfg, error,      \* locals of do_nbctl
    wait_timeout,       \* the timer server_cmd_run hands to main_loop
    alarm,              \* the process alarm armed by ctl_timeout_setup
    out,                \* what has been written to stdout / the reply
    result,             \* exit status or reply of the last invocation
    exiting,            \* server_loop's flag
    nreq,               \* requests served so far
    hist                \* bookkeeping about the current invocation

cfgVars  == <<oneline, dry_run, wait_type, force_wait, timeout, table_style>>
dbVars   == <<srv, snap, idl>>
loopVars == <<seqno, idl_ready, retry>>
txnVars  == <<the_idl_txn, symtab, c, output, status, next_cfg, error>>
vars == <<mode, registry, ctx, rpc, pc, argv, cfgVars, dbVars, loopVars, txnVars, wait_timeout,
          alarm, out, result, exiting, nreq, hist>>


(* ------------------------ option handling ------------------------------ *)
\* File-scope defaults: the static initialisers (lines 52-71), which are
\* also the values server_cmd_run resets to (lines 7937-7941).
Defaults == [oneline |-> FALSE, dry_run |-> FALSE,
             wait_type |-> NBCTL_WAIT_NONE, force_wait |-> FALSE,
             timeout |-> 0, table_style |-> "TABLE_STYLE_DEFAULT"]

\* handle_main_loop_option applied to every option of 'o' on top of the
\* configuration 'g': an option that is absent leaves its variable alone.
handle_main_loop_option(g, o) ==
    [oneline    |-> IF o.oneline THEN TRUE ELSE g.oneline,
     dry_run    |-> IF o.dry_run THEN TRUE ELSE g.dry_run,
     wait_type  |-> CASE o.wait = "sb" -> NBCTL_WAIT_SB
                      [] o.wait = "hv" -> NBCTL_WAIT_HV
                      [] OTHER         -> g.wait_type,
     force_wait |-> g.force_wait,
     timeout    |-> IF o.timeout # 0 THEN o.timeout ELSE g.timeout,
     table_style |-> g.table_style]

\* TABLE_OPTION_HANDLERS(&table_style): --format.
TABLE_OPTION_HANDLERS(g, o) ==
    [g EXCEPT !.table_style = IF o.format # "unset" THEN o.format ELSE @]

\* apply_options_direct and server_parse_options hand every option to
\* handle_main_loop_option first and to their own switch next.
apply_options_direct(g, o) ==
    TABLE_OPTION_HANDLERS(handle_main_loop_option(g, o), o)

server_parse_options(g, o) ==
    TABLE_OPTION_HANDLERS(handle_main_loop_option(g, o), o)

Config == [oneline |-> oneline, dry_run |-> dry_run, wait_type |-> wait_type,
           force_wait |-> force_wait, timeout |-> timeout,
           table_style |-> table_style]

SetConfig(g) ==
    /\ oneline' = g.oneline
    /\ dry_run' = g.dry_run
    /\ wait_type' = g.wait_type
    /\ force_wait' = g.force_wait
    /\ timeout' = g.timeout
    /\ table_style' = g.table_style

(* ------------------- command callbacks (interface) --------------------- *)
HasPrerequisites(k) == k \in {"sync", "prefail"}
HasPostprocess(k)   == k \in {"postfail", "create@a"}

\* What the prerequisite callback of a command of kind k leaves in
\* ctx.error (line 7294).
PrerequisiteError(k) ==
    IF k = "prefail" THEN "prerequisite failed" ELSE NULL

\* A sync that sets nothing.
nbctl_pre_sync_Nothing(g) == g

\* nbctl_pre_sync: the only prerequisite callback that touches the
\* configuration.
nbctl_pre_sync(g) ==
    IF g.wait_type # NBCTL_WAIT_NONE THEN [g EXCEPT !.force_wait = TRUE] ELSE g

\* A loop that goes on after a callback's error.
RECURSIVE PrerequisitesRun_All(_, _)
PrerequisitesRun_All(cmds, i) ==
    IF i > Len(cmds) THEN << >>
    ELSE IF ~HasPrerequisites(cmds[i]) THEN PrerequisitesRun_All(cmds, i + 1)
    ELSE <<i>> \o PrerequisitesRun_All(cmds, i + 1)

\* run_prerequisites, lines 7285-7304: the commands from position i on
\* whose prerequisite callback is called, in the order of the calls: the
\* loop returns at the first callback that reports an error.
RECURSIVE PrerequisitesRun(_, _)
PrerequisitesRun(cmds, i) ==
    IF i > Len(cmds) THEN << >>
    ELSE IF ~HasPrerequisites(cmds[i]) THEN PrerequisitesRun(cmds, i + 1)
    ELSE IF PrerequisiteError(cmds[i]) # NULL THEN <<i>>
    ELSE <<i>> \o PrerequisitesRun(cmds, i + 1)

\* The error run_prerequisites returns: that of the last callback it
\* called, or NULL.
run_prerequisites_error(cmds) ==
    LET called == PrerequisitesRun(cmds, 1) IN
    IF called = << >> THEN NULL
    ELSE PrerequisiteError(cmds[called[Len(called)]])

\* The configuration run_prerequisites leaves behind.
RECURSIVE run_prerequisites(_, _, _)
run_prerequisites(cmds, i, g) ==
    IF i > Len(cmds) THEN g
    ELSE IF HasPrerequisites(cmds[i]) /\ PrerequisiteError(cmds[i]) # NULL
    THEN g
    ELSE run_prerequisites(cmds, i + 1,
                           IF cmds[i] = "sync" THEN nbctl_pre_sync(g) ELSE g)


\* What the run callback of a command of kind k signals, given the snapshot
\* and the symbol table it runs against.
RunError(k, st) ==
    CASE k \in {"fail", "failwait"} -> "entity not found"
      [] k = "create@a" /\ st["a"].created ->
             "row id may only be specified on one --id option"
      [] OTHER -> NULL

RunTryAgain(k, sn) == k \in {"wait", "failwait"} /\ sn.ver = 0

RunMutates(k) == k \in {"set", "create@a", "ref@a", "ref@b", "weak@a"}

RunSymtab(k, st) ==
    CASE k = "create@a" ->
             [st EXCEPT !["a"].declared = TRUE, !["a"].created = TRUE]
      [] k = "ref@a" ->
             [st EXCEPT !["a"].declared = TRUE, !["a"].strong_ref = TRUE]
      [] k = "ref@b" ->
             [st EXCEPT !["b"].declared = TRUE, !["b"].strong_ref = TRUE]
      [] k = "weak@a" ->
             [st EXCEPT !["a"].declared = TRUE, !["a"].weak_ref = TRUE]
      [] OTHER -> st

\* The text a run callback leaves in the command's output buffer, as a
\* sequence of characters: two lines for show, one for a created row.
RunOutput(k) ==
    CASE k = "show"     -> <<"a", "\n", "a", "\n">>
      [] k = "create@a" -> <<"a", "\n">>
      [] OTHER          -> << >>

PostprocessError(k) == IF k = "postfail" THEN "postprocess failed" ELSE NULL

(* --------------------------- data values ------------------------------- *)
EmptyDb == [ver |-> 0, nb |-> FALSE, nb_cfg |-> 0, sb_cfg |-> 0, hv_cfg |-> 0]

NoTxn == [open |-> FALSE, dry_run |-> FALSE, inc |-> "none",
          nb_inserted |-> FALSE, muts |-> {}]

NoSymbol == [declared |-> FALSE, created |-> FALSE,
             strong_ref |-> FALSE, weak_ref |-> FALSE]

\* ovsdb_symbol_table_create: no symbol declared.
EmptySymtab == [s \in Symbols |-> NoSymbol]

NoOutput == [i \in 1..MaxCmds |-> << >>]

NoResult == [status |-> "none", text |-> "", payload |-> << >>]

NoOptions == [wait |-> "unset", timeout |-> 0, dry_run |-> FALSE,
              oneline |-> FALSE, format |-> "unset", unknown |-> FALSE,
              db |-> FALSE, OVN_NB_DAEMON |-> FALSE]

\* The options of 'o' that are among S, as a command line of their own.
Restrict(o, S) ==
    [wait    |-> IF "wait" \in S THEN o.wait ELSE "unset",
     timeout |-> IF "timeout" \in S THEN o.timeout ELSE 0,
     dry_run |-> "dry_run" \in S /\ o.dry_run,
     oneline |-> "oneline" \in S /\ o.oneline,
     format  |-> IF "format" \in S THEN o.format ELSE "unset",
     unknown |-> "unknown" \in S /\ o.unknown,
     db      |-> "db" \in S /\ o.db,
     OVN_NB_DAEMON |-> "OVN_NB_DAEMON" \in S /\ o.OVN_NB_DAEMON]

\* The error of getopt_long for an option that is in no table
\* (ovs_cmdl_parse_all at line 159, server_parse_options case '?').
OptionError(o) ==
    IF o.unknown THEN "unrecognized option '--unknown'" ELSE NULL

\* A parser that accepts every name.
ctl_parse_commands_AcceptAll(cmds) == NULL

\* ctl_parse_commands: the error for a batch that names a command that is
\* not in the table, or NULL.
ctl_parse_commands(cmds) ==
    IF \E i \in 1..Len(cmds) : cmds[i] = "bogus"
    THEN "unknown command 'bogus'; use --help for help"
    ELSE NULL

DatabaseConnectionFailed == "database connection failed"

NonOptionArguments ==
    "non-option arguments not supported with --detach (use --help for help)"

NoRequest == [opts |-> NoOptions, cmds |-> << >>]

\* Bookkeeping about the current invocation: attempts made, attempts whose
\* commit met a conflict, attempts a callback declared stale, the
\* mutations of the batch that are in the server database, whether a
\* commit was applied, the nb_cfg value it produced, whether the convergence
\* wait was entered, whether the previous invocation had left a
\* non-default configuration behind, the commands whose prerequisite
\* and postprocess callbacks have been called, in the order of the calls,
\* and the symbols the last validation that passed has warned about.
\* No request sent, no reply received.  A reply is an error string
\* (cmd_error) or a result text (cmd_result).
NoRpc == [args |-> << >>, sent |-> FALSE, reply |-> "none",
          cmd_error |-> NULL, cmd_result |-> << >>]

NoHist == [attempts |-> 0, conflicts |-> 0, stale |-> 0, applied |-> {},
           committed |-> FALSE, V |-> 0, waited |-> FALSE, dirty |-> FALSE,
           pre |-> << >>, post |-> << >>, warned |-> {}]

\* The context before any run callback has been called.  Its idl holds
\* the rows of Logical_Switch and Port_Group as a callback finds them, the
\* open transaction's own changes included; the callbacks that stand for
\* the kinds above do not look at them.
NoContext == [idl |-> [ls |-> << >>, pg |-> << >>], argv |-> << >>,
              options |-> {}, error |-> NULL]

\* The error of lines 7403-7405 for the symbol s.
NeverCreated(s) ==
    IF s = "a"
    THEN "row id \"a\" is referenced but never created (e.g. with \"-- --id=a create ...\")"
    ELSE "row id \"b\" is referenced but never created (e.g. with \"-- --id=b create ...\")"

(* ------------------------- output formatting --------------------------- *)
\* The characters of an output: an ordinary one, newline and backslash.
Chars == {"a", "\n", "\\"}

\* The outputs of at most MaxLen characters.
Texts == UNION {[1..n -> Chars] : n \in 0..MaxLen}

\* ds_chomp(lines, '\n'): drop one trailing newline if there is one.
ds_chomp(lines) ==
    IF Len(lines) > 0 /\ lines[Len(lines)] = "\n"
    THEN SubSeq(lines, 1, Len(lines) - 1)
    ELSE lines

\* An escaping that leaves backslashes alone.
RECURSIVE oneline_escape_KeepBackslash(_, _)
oneline_escape_KeepBackslash(lines, j) ==
    IF j > Len(lines) THEN << >>
    ELSE (IF lines[j] = "\n" THEN <<"\\", "n">> ELSE <<lines[j]>>)
         \o oneline_escape_KeepBackslash(lines, j + 1)

\* The loop of oneline_format (lines 7314-7329) from character j on.
RECURSIVE oneline_escape(_, _)
oneline_escape(lines, j) ==
    IF j > Len(lines) THEN << >>
    ELSE (CASE lines[j] = "\n" -> <<"\\", "n">>
            [] lines[j] = "\\" -> <<"\\", "\\">>
            [] OTHER           -> <<lines[j]>>)
         \o oneline_escape(lines, j + 1)

\* oneline_format(lines, s), lines 7309-7331: 'lines' is chomped in place,
\* and what is appended to 's' is the escaped text and one newline.
oneline_format(lines) ==
    [lines |-> ds_chomp(lines),
     s     |-> oneline_escape(ds_chomp(lines), 1) \o <<"\n">>]

\* What the output loops of do_nbctl (7471-7481) and server_cmd_run
\* (7981-7989) make of the buffer 'lines' of a command without a table.
Formatted(lines) == IF oneline THEN oneline_format(lines).s ELSE lines

\* The output buffers after such a loop over the commands 1..n.
Chomped(n) ==
    [i \in 1..MaxCmds |->
        IF oneline /\ i <= n THEN oneline_format(output[i]).lines
        ELSE output[i]]

(* ------------------------------ IDL ------------------------------------ *)
\* ovsdb_idl_run: processes what the server has sent.  Before the first
\* connection it may connect (and fetch the database), make no progress,
\* or - without reconnection, i.e. in direct mode - fail for good.  Every
\* batch of updates it applies changes the sequence number.
ovsdb_idl_run ==
    \/ /\ idl.alive /\ ~idl.ever
       /\ \/ /\ idl' = [idl EXCEPT !.ever = TRUE, !.seqno = @ + 1]
             /\ snap' = srv
          \/ /\ idl' = idl
             /\ snap' = snap
          \/ /\ mode = "direct"
             /\ idl' = [idl EXCEPT !.alive = FALSE]
             /\ snap' = snap
    \/ /\ idl.alive /\ idl.ever
       /\ snap' = srv
       /\ idl' = IF srv # snap THEN [idl EXCEPT !.seqno = @ + 1] ELSE idl
    \/ /\ ~idl.alive
       /\ idl' = idl
       /\ snap' = snap

\* The IDL has something for poll_block to wake up on.
IdlWake == srv # snap \/ ~idl.ever \/ ~idl.alive

(* ------------------------------ Init ----------------------------------- *)
\* The state main starts in: the file-scope variables hold their static
\* initialisers, the IDL is unconnected, and the command line is any
\* request over the registered commands.
\* Modes, Cmds and Opts are the modes, commands and options exercised.
InitWith(Modes, Cmds, Opts) ==
    /\ mode \in Modes
    /\ registry = [commands |-> Cmds, options |-> Opts]
    /\ ctx = NoContext
    /\ rpc = NoRpc
    /\ pc = "main"
    /\ argv \in Requests(registry)
    /\ oneline = Defaults.oneline
    /\ dry_run = Defaults.dry_run
    /\ wait_type = Defaults.wait_type
    /\ force_wait = Defaults.force_wait
    /\ timeout = Defaults.timeout
    /\ table_style = Defaults.table_style
    /\ srv \in {EmptyDb, [EmptyDb EXCEPT !.nb = TRUE]}
    /\ snap = EmptyDb
    /\ idl = [seqno |-> 0, ever |-> FALSE, alive |-> TRUE]
    /\ seqno = 0
    /\ idl_ready = FALSE
    /\ retry = "unset"
    /\ the_idl_txn = NoTxn
    /\ symtab = EmptySymtab
    /\ c = 0
    /\ output = NoOutput
    /\ status = TXN_UNCOMMITTED
    /\ next_cfg = 0
    /\ error = NULL
    /\ wait_timeout = NULL
    /\ alarm = "off"
    /\ out = << >>
    /\ result = NoResult
    /\ exiting = FALSE
    /\ nreq = 0
    /\ hist = NoHist

(* ------------------------- main, main_loop ----------------------------- *)
\* A main_loop that takes the IDL for connected whatever it says.
main_loop_enter_AlwaysReady ==
    /\ seqno' = idl.seqno
    /\ idl_ready' = TRUE
    /\ retry' = "unset"

\* main_loop, lines 263-268: the locals as main_loop initialises them.
main_loop_enter ==
    /\ seqno' = idl.seqno
    /\ idl_ready' = idl.ever
    /\ retry' = "unset"

\* The transaction-local state outside of do_nbctl.
NoAttempt ==
    /\ the_idl_txn' = NoTxn
    /\ symtab' = EmptySymtab
    /\ c' = 0
    /\ output' = NoOutput
    /\ status' = TXN_UNCOMMITTED
    /\ next_cfg' = 0
    /\ error' = NULL

\* A ctl_fatal that exits with EXIT_SUCCESS.
ctl_fatal_ExitSuccess(err) ==
    /\ result' = [status |-> "ok", text |-> err, payload |-> << >>]
    /\ pc' = "exit"

\* exit(EXIT_SUCCESS) with nothing on stderr, line 246.
EXIT_SUCCESS == [status |-> "ok", text |-> "", payload |-> << >>]

\* ctl_fatal(err): the message goes to stderr and the process exits with
\* EXIT_FAILURE.
ctl_fatal(err) ==
    /\ result' = [status |-> "error", text |-> err, payload |-> << >>]
    /\ pc' = "exit"

\* main, lines 183-226, with the configuration g that apply_options_direct
\* makes: server mode with --detach, which takes no commands, else direct
\* mode.
main_direct(g) ==
    IF mode = "daemon" /\ argv.cmds # << >>
    THEN /\ ctl_fatal(NonOptionArguments)
         /\ SetConfig(g)
         /\ UNCHANGED <<argv, alarm, loopVars>>
    ELSE IF mode = "daemon"
    THEN /\ SetConfig(g)
         /\ pc' = "server_loop"
         /\ argv' = NoRequest
         /\ UNCHANGED <<alarm, loopVars, result>>
    ELSE IF ctl_parse_commands(argv.cmds) # NULL
    THEN /\ ctl_fatal(ctl_parse_commands(argv.cmds))
         /\ SetConfig(g)
         /\ UNCHANGED <<argv, alarm, loopVars>>
    ELSE IF run_prerequisites_error(argv.cmds) # NULL
    THEN /\ ctl_fatal(run_prerequisites_error(argv.cmds))
         /\ SetConfig(run_prerequisites(argv.cmds, 1, g))
         /\ alarm' = IF g.timeout # 0 THEN "armed" ELSE "off"
         /\ UNCHANGED <<argv, loopVars>>
    ELSE /\ SetConfig(run_prerequisites(argv.cmds, 1, g))
         /\ pc' = "ml_run"
         /\ alarm' = IF g.timeout # 0 THEN "armed" ELSE "off"
         /\ argv' = argv
         /\ main_loop_enter
         /\ result' = result

\* A client that forwards everything but the wait mode.
OptionTokens_DropWait(o) ==
    (IF o.dry_run THEN <<"--dry-run">> ELSE << >>)
    \o (IF o.oneline THEN <<"--oneline">> ELSE << >>)
    \o (IF o.format = "json" THEN <<"--format=json">> ELSE << >>)

\* The tokens nbctl_client puts into the request for the options of 'o'
\* (lines 8072-8130): every option but --timeout, which the client keeps
\* to itself, as --name or --name=arg.
OptionTokens(o) ==
    (IF o.wait = "sb" THEN <<"--wait=sb">>
     ELSE IF o.wait = "hv" THEN <<"--wait=hv">> ELSE << >>)
    \o (IF o.dry_run THEN <<"--dry-run">> ELSE << >>)
    \o (IF o.oneline THEN <<"--oneline">> ELSE << >>)
    \o (IF o.format = "json" THEN <<"--format=json">> ELSE << >>)

\* nbctl_client, lines 8068-8137: the argument vector of the "run"
\* request: the forwarded options, "--", and the positional arguments in
\* their order.
nbctl_client_args(o, cmds) == OptionTokens(o) \o <<"--">> \o cmds

\* main, lines 173-176: client mode is tried when OVN_NB_DAEMON names a
\* socket and --detach is not given; nbctl_client returns to main, for
\* direct mode, when it meets --db (lines 8075-8079).
will_detach == mode = "daemon"

\* A client mode that --db does not turn off.
ClientMode_IgnoreDb(o) == o.OVN_NB_DAEMON /\ ~will_detach

ClientMode(o) == o.OVN_NB_DAEMON /\ ~will_detach /\ ~o.db

\* main, lines 159-226: parse the options, pick the mode, and in client
\* mode build the request and arm the alarm; otherwise apply the options
\* and in direct mode parse the commands, arm the alarm, run the
\* prerequisites and enter main_loop.
main ==
    /\ pc = "main"
    /\ LET g == apply_options_direct(Config, argv.opts) IN
       IF OptionError(argv.opts) # NULL
       THEN /\ ctl_fatal(OptionError(argv.opts))
            /\ UNCHANGED <<cfgVars, argv, alarm, loopVars, rpc>>
       ELSE IF ClientMode(argv.opts)
       THEN /\ rpc' = [NoRpc EXCEPT
                         !.args = nbctl_client_args(argv.opts, argv.cmds)]
            /\ timeout' = IF argv.opts.timeout # 0 THEN argv.opts.timeout
                          ELSE timeout
            /\ alarm' = IF timeout' # 0 THEN "armed" ELSE "off"
            /\ pc' = "client"
            /\ UNCHANGED <<oneline, dry_run, wait_type, force_wait,
                           table_style, argv, loopVars, result>>
       ELSE /\ rpc' = rpc
            /\ main_direct(g)
    /\ hist' = IF /\ OptionError(argv.opts) = NULL
                  /\ ~ClientMode(argv.opts)
                  /\ mode # "daemon"
                  /\ ctl_parse_commands(argv.cmds) = NULL
               THEN [hist EXCEPT !.pre = PrerequisitesRun(argv.cmds, 1)]
               ELSE hist
    /\ UNCHANGED <<mode, registry, ctx, dbVars, txnVars, wait_timeout, out,
                   exiting, nreq>>


\* Return of main_loop to its caller.  main (lines 227-246) exits, through
\* ctl_fatal on an error.  server_cmd_run (lines 7974-7995) replies with
\* the error, or with the outputs formatted in command order, and destroys
\* the outputs; its timer goes out of scope.
Reply(n) == [i \in 1..n |-> [cmd |-> i, text |-> Formatted(output[i])]]

\* A return that ends the process when main_loop reports an error.
Return_ExitOnError(err) ==
    /\ result' = IF err # NULL
                 THEN [status |-> "error", text |-> err, payload |-> << >>]
                 ELSE [status |-> "ok", text |-> "",
                       payload |-> IF mode = "daemon"
                                   THEN Reply(Len(argv.cmds)) ELSE << >>]
    /\ pc' = IF mode = "direct" \/ err # NULL THEN "exit" ELSE "replied"
    /\ output' = NoOutput
    /\ wait_timeout' = NULL

Return(err) ==
    /\ result' = IF err # NULL
                 THEN [status |-> "error", text |-> err, payload |-> << >>]
                 ELSE [status |-> "ok", text |-> "",
                       payload |-> IF mode = "daemon"
                                   THEN Reply(Len(argv.cmds)) ELSE << >>]
    /\ pc' = IF mode = "direct" THEN "exit" ELSE "replied"
    /\ output' = NoOutput
    /\ wait_timeout' = NULL

\* main_loop, lines 269-280 and 292-295: one pass of the loop up to the
\* call of do_nbctl or to the block.
main_loop ==
    /\ pc = "ml_run"
    /\ ovsdb_idl_run
    /\ IF ~idl'.alive
       THEN /\ ctl_fatal(DatabaseConnectionFailed)
            /\ UNCHANGED <<loopVars>>
       ELSE IF idl_ready \/ seqno # idl'.seqno
       THEN /\ idl_ready' = FALSE
            /\ seqno' = idl'.seqno
            /\ retry' = "unset"
            /\ pc' = "do_nbctl"
            /\ result' = result
       ELSE /\ pc' = "ml_block"
            /\ UNCHANGED <<loopVars, result>>
    /\ UNCHANGED <<mode, registry, ctx, rpc, argv, cfgVars, srv, txnVars, wait_timeout, alarm,
                   out, exiting, nreq, hist>>

\* main_loop, lines 293-294: ovsdb_idl_wait; poll_block.  No timer is
\* registered here; in direct mode the process alarm ends the process at
\* a poll_block that returns after the deadline.
main_loop_block ==
    /\ pc = "ml_block"
    /\ \/ /\ IdlWake
          /\ alarm # "expired"
          /\ pc' = "ml_run"
          /\ result' = result
       \/ /\ alarm = "expired"
          /\ pc' = "exit"
          /\ result' = [status |-> "killed", text |-> "SIGALRM", payload |-> << >>]
    /\ UNCHANGED <<mode, registry, ctx, rpc, argv, cfgVars, dbVars, loopVars, txnVars,
                   wait_timeout, alarm, out, exiting, nreq, hist>>

\* main_loop returning to its caller after the first attempt, whatever
\* do_nbctl said about retrying.
main_loop_return_GiveUp ==
    /\ pc = "ml_ret"
    /\ Return(error)
    /\ UNCHANGED <<mode, registry, ctx, rpc, argv, cfgVars, dbVars, loopVars,
                   the_idl_txn, symtab, c, status, next_cfg, error, alarm,
                   out, exiting, nreq, hist>>

\* A main_loop that blocks after every RETRY, whatever the sequence number.
main_loop_return_AlwaysBlock ==
    /\ pc = "ml_ret"
    /\ IF error # NULL THEN Return(error)
       ELSE IF retry = "false" THEN Return(NULL)
       ELSE /\ pc' = "ml_block"
            /\ UNCHANGED <<result, output, wait_timeout>>
    /\ UNCHANGED <<mode, registry, ctx, rpc, argv, cfgVars, dbVars, loopVars, the_idl_txn,
                   symtab, c, status, next_cfg, error, alarm, out, exiting,
                   nreq, hist>>

\* main_loop, lines 284-295: what follows the return of do_nbctl.
main_loop_return ==
    /\ pc = "ml_ret"
    /\ IF error # NULL THEN Return(error)
       ELSE IF retry = "false" THEN Return(NULL)
       ELSE /\ pc' = IF seqno = idl.seqno THEN "ml_block" ELSE "ml_run"
            /\ UNCHANGED <<result, output, wait_timeout>>
    /\ UNCHANGED <<mode, registry, ctx, rpc, argv, cfgVars, dbVars, loopVars, the_idl_txn,
                   symtab, c, status, next_cfg, error, alarm, out, exiting,
                   nreq, hist>>

(* ------------------------------ do_nbctl ------------------------------- *)
N == Len(argv.cmds)

\* A transaction that is never marked dry-run.
ovsdb_idl_txn_create_NoDryRun ==
    [open |-> TRUE,
     dry_run |-> FALSE,
     inc |-> IF wait_type = NBCTL_WAIT_NONE THEN "none"
             ELSE IF force_wait THEN "force" ELSE "lazy",
     nb_inserted |-> ~snap.nb,
     muts |-> {}]

\* A transaction that asks for the increment whatever the wait mode.
ovsdb_idl_txn_create_AlwaysIncrement ==
    [open |-> TRUE,
     dry_run |-> dry_run,
     inc |-> IF force_wait THEN "force" ELSE "lazy",
     nb_inserted |-> ~snap.nb,
     muts |-> {}]

\* do_nbctl, lines 7357-7373: the transaction as it is before the first
\* command runs: created, marked dry-run if dry_run is set, holding the
\* insertion of NB_Global if the snapshot has no such row, and the nb_cfg
\* increment if a wait is configured.
ovsdb_idl_txn_create ==
    [open |-> TRUE,
     dry_run |-> dry_run,
     inc |-> IF wait_type = NBCTL_WAIT_NONE THEN "none"
             ELSE IF force_wait THEN "force" ELSE "lazy",
     nb_inserted |-> ~snap.nb,
     muts |-> {}]

\* A do_nbctl that takes up the commands where the attempt before stopped.
do_nbctl_begin_Resume ==
    /\ pc = "do_nbctl"
    /\ the_idl_txn' = ovsdb_idl_txn_create
    /\ symtab' = EmptySymtab
    /\ output' = NoOutput
    /\ c' = IF c = 0 THEN 1 ELSE c
    /\ status' = TXN_UNCOMMITTED
    /\ next_cfg' = 0
    /\ error' = NULL
    /\ pc' = IF N = 0 THEN "symtab" ELSE "run"
    /\ hist' = [hist EXCEPT !.attempts = @ + 1]
    /\ UNCHANGED <<mode, registry, ctx, rpc, argv, cfgVars, dbVars, loopVars, wait_timeout,
                   alarm, out, result, exiting, nreq>>

\* A do_nbctl that calls the prerequisite callbacks at the start of every
\* attempt.
do_nbctl_begin_Prerequisites ==
    /\ pc = "do_nbctl"
    /\ the_idl_txn' = ovsdb_idl_txn_create
    /\ symtab' = EmptySymtab
    /\ output' = NoOutput
    /\ c' = 1
    /\ status' = TXN_UNCOMMITTED
    /\ next_cfg' = 0
    /\ error' = NULL
    /\ pc' = IF N = 0 THEN "symtab" ELSE "run"
    /\ hist' = [hist EXCEPT !.attempts = @ + 1,
                            !.pre = @ \o PrerequisitesRun(argv.cmds, 1)]
    /\ UNCHANGED <<mode, registry, ctx, rpc, argv, cfgVars, dbVars, loopVars, wait_timeout,
                   alarm, out, result, exiting, nreq>>

\* do_nbctl, lines 7357-7380: create the transaction (dry-run if asked),
\* insert the NB_Global row if the snapshot has none, request the nb_cfg
\* increment if a wait is configured, create the symbol table and
\* initialise every command's output.
do_nbctl_begin ==
    /\ pc = "do_nbctl"
    /\ the_idl_txn' = ovsdb_idl_txn_create
    /\ symtab' = EmptySymtab
    /\ output' = NoOutput
    /\ c' = 1
    /\ status' = TXN_UNCOMMITTED
    /\ next_cfg' = 0
    /\ error' = NULL
    /\ pc' = IF N = 0 THEN "symtab" ELSE "run"
    /\ hist' = [hist EXCEPT !.attempts = @ + 1]
    /\ UNCHANGED <<mode, registry, ctx, rpc, argv, cfgVars, dbVars, loopVars, wait_timeout,
                   alarm, out, result, exiting, nreq>>

\* An error exit that leaves the outputs of the commands alone.
out_error_KeepOutput(err) ==
    /\ the_idl_txn' = NoTxn
    /\ symtab' = EmptySymtab
    /\ output' = output
    /\ error' = err
    /\ pc' = "ml_ret"

\* do_nbctl, lines 7520-7532 (out_error): abort and destroy the
\* transaction, destroy the symbol table and every command's output, and
\* return 'err'.
out_error(err) ==
    /\ the_idl_txn' = NoTxn
    /\ symtab' = EmptySymtab
    /\ output' = NoOutput
    /\ error' = err
    /\ pc' = "ml_ret"

\* A try_again that tells the caller not to retry.
try_again_NoRetry(err) ==
    /\ retry' = "false"
    /\ out_error(err)

\* do_nbctl, lines 7515-7518 (try_again): set *retry, then fall into
\* out_error with the error as it is.
try_again(err) ==
    /\ retry' = "true"
    /\ out_error(err)

\* do_nbctl going on to the next command after a callback's error.
do_nbctl_run_IgnoreError ==
    /\ pc = "run"
    /\ LET k   == argv.cmds[c]
           err == RunError(k, symtab)
           txn == IF RunMutates(k)
                  THEN [the_idl_txn EXCEPT !.muts = @ \cup {c}]
                  ELSE the_idl_txn
       IN
       IF err = NULL /\ RunTryAgain(k, snap)
       THEN /\ try_again(error)
            /\ c' = c
            /\ hist' = [hist EXCEPT !.stale = @ + 1]
       ELSE /\ the_idl_txn' = txn
            /\ symtab' = RunSymtab(k, symtab)
            /\ output' = [output EXCEPT ![c] = RunOutput(k)]
            /\ error' = IF err # NULL THEN err ELSE error
            /\ c' = c + 1
            /\ pc' = IF c = N THEN "symtab" ELSE "run"
            /\ UNCHANGED <<retry, hist>>
    /\ UNCHANGED <<mode, registry, ctx, rpc, argv, cfgVars, dbVars, seqno, idl_ready,
                   status, next_cfg, wait_timeout, alarm, out, result,
                   exiting, nreq>>

\* A do_nbctl that looks at try_again before it looks at the error.
do_nbctl_run_TryAgainFirst ==
    /\ pc = "run"
    /\ LET k   == argv.cmds[c]
           err == RunError(k, symtab)
           txn == IF RunMutates(k)
                  THEN [the_idl_txn EXCEPT !.muts = @ \cup {c}]
                  ELSE the_idl_txn
       IN
       IF RunTryAgain(k, snap)
       THEN /\ try_again(error)
            /\ c' = c
            /\ hist' = [hist EXCEPT !.stale = @ + 1]
       ELSE IF err # NULL
       THEN /\ out_error(err)
            /\ UNCHANGED <<c, retry, hist>>
       ELSE /\ the_idl_txn' = txn
            /\ symtab' = RunSymtab(k, symtab)
            /\ output' = [output EXCEPT ![c] = RunOutput(k)]
            /\ c' = c + 1
            /\ pc' = IF c = N THEN "symtab" ELSE "run"
            /\ UNCHANGED <<error, retry, hist>>
    /\ UNCHANGED <<mode, registry, ctx, rpc, argv, cfgVars, dbVars, seqno, idl_ready, status,
                   next_cfg, wait_timeout, alarm, out, result, exiting, nreq>>

\* do_nbctl, lines 7381-7398: run the callback of command c.
do_nbctl_run ==
    /\ pc = "run"
    /\ LET k   == argv.cmds[c]
           err == RunError(k, symtab)
           txn == IF RunMutates(k)
                  THEN [the_idl_txn EXCEPT !.muts = @ \cup {c}]
                  ELSE the_idl_txn
       IN
       IF err # NULL
       THEN /\ out_error(err)
            /\ UNCHANGED <<c, retry, hist>>
       ELSE IF RunTryAgain(k, snap)
       THEN /\ try_again(error)
            /\ c' = c
            /\ hist' = [hist EXCEPT !.stale = @ + 1]
       ELSE /\ the_idl_txn' = txn
            /\ symtab' = RunSymtab(k, symtab)
            /\ output' = [output EXCEPT ![c] = RunOutput(k)]
            /\ c' = c + 1
            /\ pc' = IF c = N THEN "symtab" ELSE "run"
            /\ UNCHANGED <<error, retry, hist>>
    /\ UNCHANGED <<mode, registry, ctx, rpc, argv, cfgVars, dbVars, seqno, idl_ready, status,
                   next_cfg, wait_timeout, alarm, out, result, exiting, nreq>>

\* A validation that rejects nothing, and one that looks at the wrong flag.
Uncreated_None(st) == {s \in Symbols : FALSE}

Uncreated_Unreferenced(st) ==
    {s \in Symbols : st[s].declared /\ ~st[s].strong_ref}

\* A validation that also rejects a created symbol nothing refers to
\* strongly.
Uncreated_Orphans(st) ==
    {s \in Symbols : st[s].declared /\ (~st[s].created \/ ~st[s].strong_ref)}

\* The symbols the validation loop of lines 7400-7407 rejects.
Uncreated(st) == {s \in Symbols : st[s].declared /\ ~st[s].created}

\* A do_nbctl that looks at the timer before it commits.
do_nbctl_symtab_CheckTimer ==
    /\ pc = "symtab"
    /\ IF wait_timeout = "expired"
       THEN out_error(TimeoutExpired)
       ELSE IF Uncreated(symtab) # {}
       THEN \E s \in Uncreated(symtab) : out_error(NeverCreated(s))
       ELSE /\ pc' = "commit"
            /\ UNCHANGED <<the_idl_txn, symtab, output, error>>
    /\ UNCHANGED <<mode, registry, ctx, rpc, argv, cfgVars, dbVars, loopVars, c, status,
                   next_cfg, wait_timeout, alarm, out, result, exiting,
                   nreq, hist>>

\* The symbols lines 7408-7418 warn about: created, with no strong
\* reference.
Orphans(st) == {s \in Symbols : st[s].created /\ ~st[s].strong_ref}

\* do_nbctl, lines 7400-7419: validate the symbol table.  The loop stops
\* at the first uncreated symbol in hash order, which is any of them; a
\* loop that gets through has warned about every orphan.
do_nbctl_symtab ==
    /\ pc = "symtab"
    /\ IF Uncreated(symtab) # {}
       THEN /\ \E s \in Uncreated(symtab) : out_error(NeverCreated(s))
            /\ hist' = hist
       ELSE /\ pc' = "commit"
            /\ hist' = [hist EXCEPT !.warned = Orphans(symtab)]
            /\ UNCHANGED <<the_idl_txn, symtab, output, error>>
    /\ UNCHANGED <<mode, registry, ctx, rpc, argv, cfgVars, dbVars, loopVars, c, status,
                   next_cfg, wait_timeout, alarm, out, result, exiting,
                   nreq>>


\* ovsdb_idl_txn_commit: the nb_cfg increment is part of the transaction
\* if it was forced or if the transaction has other updates.
OtherUpdates(txn) == txn.muts # {} \/ txn.nb_inserted
Increments(txn)   == txn.inc # "none" /\ (OtherUpdates(txn) \/ txn.inc = "force")
AnyUpdates(txn)   == OtherUpdates(txn) \/ Increments(txn)

\* The statuses ovsdb_idl_txn_commit_block can return for 'txn': a
\* transaction without updates is TXN_UNCHANGED; a conflict needs a server
\* database that moved on from the snapshot the transaction was built on.
CommitStatuses(txn) ==
    IF ~AnyUpdates(txn) THEN {TXN_UNCHANGED}
    ELSE {TXN_SUCCESS, TXN_ERROR, TXN_ABORTED, TXN_NOT_LOCKED}
         \cup (IF srv.ver # snap.ver THEN {TXN_TRY_AGAIN} ELSE {})

\* The server database after 'txn' has been applied to it.
Applied(txn) ==
    [srv EXCEPT !.nb = TRUE,
                !.nb_cfg = IF Increments(txn) THEN @ + 1 ELSE @]

\* do_nbctl, lines 7421-7424: commit and fetch the incremented nb_cfg.
\* All mutations of the transaction reach the server together, and only
\* with TXN_SUCCESS outside of dry-run.  commit_block runs the IDL, so the
\* snapshot has caught up with the server when it returns a reply.
do_nbctl_commit ==
    /\ pc = "commit"
    /\ \E st \in CommitStatuses(the_idl_txn) :
         LET applies == st = TXN_SUCCESS /\ ~the_idl_txn.dry_run
             srv2    == IF applies THEN Applied(the_idl_txn) ELSE srv
         IN
         /\ status' = st
         /\ srv' = srv2
         /\ IF st = TXN_UNCHANGED
            THEN UNCHANGED <<snap, idl>>
            ELSE /\ snap' = srv2
                 /\ idl' = IF srv2 # snap THEN [idl EXCEPT !.seqno = @ + 1]
                                          ELSE idl
         /\ \E v \in (IF applies THEN {srv2.nb_cfg} ELSE {0, srv.nb_cfg + 1}) :
              next_cfg' = IF wait_type # NBCTL_WAIT_NONE /\ st = TXN_SUCCESS
                          THEN v ELSE next_cfg
         /\ hist' = IF applies
                    THEN [hist EXCEPT !.applied = the_idl_txn.muts,
                                      !.committed = TRUE,
                                      !.V = IF Increments(the_idl_txn)
                                            THEN srv2.nb_cfg ELSE 0]
                    ELSE IF st = TXN_TRY_AGAIN
                    THEN [hist EXCEPT !.conflicts = @ + 1]
                    ELSE hist
    /\ pc' = "postprocess"
    /\ UNCHANGED <<mode, registry, ctx, rpc, argv, cfgVars, loopVars, the_idl_txn, symtab, c,
                   output, error, wait_timeout, alarm, out, result, exiting,
                   nreq>>

\* Index of the first command whose postprocess callback reports an
\* error, or 0.
RECURSIVE FirstPostError(_, _)
FirstPostError(cmds, i) ==
    IF i > Len(cmds) THEN 0
    ELSE IF HasPostprocess(cmds[i]) /\ PostprocessError(cmds[i]) # NULL THEN i
    ELSE FirstPostError(cmds, i + 1)

\* A loop that calls the postprocess callbacks whatever the status.
PostprocessStatuses_Any ==
    {TXN_UNCHANGED, TXN_SUCCESS, TXN_ABORTED, TXN_TRY_AGAIN, TXN_ERROR,
     TXN_NOT_LOCKED}

\* do_nbctl, line 7425: the commit statuses after which the postprocess
\* callbacks are called.
PostprocessStatuses == {TXN_UNCHANGED, TXN_SUCCESS}

\* do_nbctl, lines 7426-7437: the commands from position i on whose
\* postprocess callback is called, in the order of the calls: the loop is
\* left at the first callback that reports an error.
RECURSIVE PostprocessRun(_, _)
PostprocessRun(cmds, i) ==
    IF i > Len(cmds) THEN << >>
    ELSE IF ~HasPostprocess(cmds[i]) THEN PostprocessRun(cmds, i + 1)
    ELSE IF PostprocessError(cmds[i]) # NULL THEN <<i>>
    ELSE <<i>> \o PostprocessRun(cmds, i + 1)

\* A do_nbctl that goes on to the switch after a postprocess error.
do_nbctl_postprocess_IgnoreError ==
    /\ pc = "postprocess"
    /\ pc' = "switch"
    /\ hist' = IF status \in PostprocessStatuses
               THEN [hist EXCEPT !.post = PostprocessRun(argv.cmds, 1)]
               ELSE hist
    /\ UNCHANGED <<mode, registry, ctx, rpc, argv, cfgVars, dbVars, loopVars, txnVars,
                   wait_timeout, alarm, out, result, exiting, nreq>>

\* do_nbctl, lines 7425-7438: the postprocess callbacks, only after
\* TXN_UNCHANGED or TXN_SUCCESS.
do_nbctl_postprocess ==
    /\ pc = "postprocess"
    /\ LET i == FirstPostError(argv.cmds, 1) IN
       IF status \in PostprocessStatuses /\ i # 0
       THEN out_error(PostprocessError(argv.cmds[i]))
       ELSE /\ pc' = "switch"
            /\ UNCHANGED <<the_idl_txn, symtab, output, error>>
    /\ hist' = IF status \in PostprocessStatuses
               THEN [hist EXCEPT !.post = PostprocessRun(argv.cmds, 1)]
               ELSE hist
    /\ UNCHANGED <<mode, registry, ctx, rpc, argv, cfgVars, dbVars, loopVars, c, status,
                   next_cfg, wait_timeout, alarm, out, result, exiting,
                   nreq>>

\* A successful return that leaves the transaction in the_idl_txn.
done_KeepTxn ==
    /\ the_idl_txn' = the_idl_txn
    /\ symtab' = EmptySymtab
    /\ retry' = "false"
    /\ pc' = "ml_ret"

\* do_nbctl, lines 7508-7513: destroy the symbol table and the
\* transaction, set *retry to false, return NULL.
done ==
    /\ the_idl_txn' = NoTxn
    /\ symtab' = EmptySymtab
    /\ retry' = "false"
    /\ pc' = "ml_ret"

\* An output loop that goes through the commands backwards.
Printed_Reversed(n) ==
    [i \in 1..n |-> [cmd |-> n + 1 - i, text |-> Formatted(output[n + 1 - i])]]

\* What lines 7471-7481 write for the commands 1..n, in command order.
Printed(n) == [i \in 1..n |-> [cmd |-> i, text |-> Formatted(output[i])]]

\* A wait entered whatever the commit status.
ShouldWait_EvenIfUnchanged == wait_type # NBCTL_WAIT_NONE

\* do_nbctl, line 7483: the convergence wait is entered for a configured
\* wait after a commit that was not TXN_UNCHANGED.
ShouldWait == wait_type # NBCTL_WAIT_NONE /\ status # TXN_UNCHANGED

\* A switch that treats TXN_ERROR like a conflict.
Switch_TryAgainOnError(st) ==
    CASE st = TXN_ABORTED    -> [to |-> "out_error", error |-> "transaction aborted"]
      [] st = TXN_TRY_AGAIN  -> [to |-> "try_again", error |-> NULL]
      [] st = TXN_ERROR      -> [to |-> "try_again", error |-> NULL]
      [] st = TXN_NOT_LOCKED -> [to |-> "out_error", error |-> "database not locked"]
      [] OTHER               -> [to |-> "break", error |-> NULL]

\* do_nbctl, lines 7440-7469: where the switch on the commit status
\* leads, and with which error.
Switch(st) ==
    CASE st = TXN_ABORTED    -> [to |-> "out_error", error |-> "transaction aborted"]
      [] st = TXN_TRY_AGAIN  -> [to |-> "try_again", error |-> NULL]
      [] st = TXN_ERROR      -> [to |-> "out_error", error |-> "transaction error"]
      [] st = TXN_NOT_LOCKED -> [to |-> "out_error", error |-> "database not locked"]
      [] OTHER               -> [to |-> "break", error |-> NULL]

\* do_nbctl, lines 7440-7484: the switch on the commit status, the
\* printing of the outputs, and the decision to wait.
do_nbctl_switch ==
    /\ pc = "switch"
    /\ LET sw == Switch(status) IN
       CASE sw.to = "out_error" ->
              /\ out_error(sw.error)
              /\ UNCHANGED <<retry, out, hist>>
         [] sw.to = "try_again" ->
              /\ try_again(error)
              /\ UNCHANGED <<out, hist>>
         [] OTHER ->
              /\ out' = out \o Printed(N)
              /\ output' = Chomped(N)
              /\ IF ShouldWait
                 THEN /\ pc' = "wait_run"
                      /\ hist' = [hist EXCEPT !.waited = TRUE]
                      /\ UNCHANGED <<the_idl_txn, symtab, retry>>
                 ELSE /\ done
                      /\ hist' = hist
              /\ error' = error
    /\ UNCHANGED <<mode, registry, ctx, rpc, argv, cfgVars, dbVars, seqno, idl_ready,
                   c, status, next_cfg, wait_timeout, alarm, result, exiting,
                   nreq>>

\* A wait that looks at sb_cfg whatever the wait mode.
cur_cfg_AlwaysSb(row) == row.sb_cfg

\* The counter of the configured consumer (lines 7488-7490).
cur_cfg(row) == IF wait_type = NBCTL_WAIT_SB THEN row.sb_cfg ELSE row.hv_cfg

\* A wait loop that looks at the timer before it looks at the counters.
do_nbctl_wait_TimerFirst ==
    /\ pc = "wait_run"
    /\ ovsdb_idl_run
    /\ IF wait_timeout = "expired"
       THEN /\ out_error(TimeoutExpired)
            /\ retry' = retry
       ELSE IF snap'.nb /\ cur_cfg(snap') >= next_cfg
       THEN /\ done
            /\ UNCHANGED <<output, error>>
       ELSE /\ pc' = "wait_block"
            /\ UNCHANGED <<the_idl_txn, symtab, retry, output, error>>
    /\ UNCHANGED <<mode, registry, ctx, rpc, argv, cfgVars, srv, seqno, idl_ready, c,
                   status, next_cfg, wait_timeout, alarm, out, result,
                   exiting, nreq, hist>>

\* do_nbctl, lines 7486-7494: refresh the snapshot and look for an
\* NB_Global row whose counter has reached next_cfg.
do_nbctl_wait ==
    /\ pc = "wait_run"
    /\ ovsdb_idl_run
    /\ IF snap'.nb /\ cur_cfg(snap') >= next_cfg
       THEN done
       ELSE /\ pc' = "wait_block"
            /\ UNCHANGED <<the_idl_txn, symtab, retry>>
    /\ UNCHANGED <<mode, registry, ctx, rpc, argv, cfgVars, srv, seqno, idl_ready, c, output,
                   status, next_cfg, error, wait_timeout, alarm, out, result,
                   exiting, nreq, hist>>

\* A wait loop that ignores the timer.
do_nbctl_wait_block_NoTimer ==
    /\ pc = "wait_block"
    /\ \/ /\ alarm = "expired"
          /\ pc' = "exit"
          /\ result' = [status |-> "killed", text |-> "SIGALRM", payload |-> << >>]
       \/ /\ alarm # "expired"
          /\ IdlWake \/ wait_timeout = "expired"
          /\ pc' = "wait_run"
          /\ result' = result
    /\ UNCHANGED <<mode, registry, ctx, rpc, argv, cfgVars, dbVars, loopVars, txnVars,
                   wait_timeout, alarm, out, exiting, nreq, hist>>

\* A wait loop that asks for another attempt when the timer has expired.
do_nbctl_wait_block_TryAgain ==
    /\ pc = "wait_block"
    /\ \/ /\ alarm = "expired"
          /\ pc' = "exit"
          /\ result' = [status |-> "killed", text |-> "SIGALRM", payload |-> << >>]
          /\ UNCHANGED <<the_idl_txn, symtab, output, error, retry>>
       \/ /\ alarm # "expired"
          /\ wait_timeout = "expired"
          /\ try_again(TimeoutExpired)
          /\ result' = result
       \/ /\ alarm # "expired"
          /\ wait_timeout # "expired"
          /\ IdlWake
          /\ pc' = "wait_run"
          /\ UNCHANGED <<the_idl_txn, symtab, output, error, result, retry>>
    /\ UNCHANGED <<mode, registry, ctx, rpc, argv, cfgVars, dbVars, seqno, idl_ready, c,
                   status, next_cfg, wait_timeout, alarm, out, exiting, nreq,
                   hist>>

\* do_nbctl, lines 7495-7503: block on the IDL and on the timer if there
\* is one; after the block an expired timer ends the wait with "timeout
\* expired".  In direct mode there is no timer; the process alarm ends
\* the process at a poll_block that returns after the deadline.
do_nbctl_wait_block ==
    /\ pc = "wait_block"
    /\ \/ /\ alarm = "expired"
          /\ pc' = "exit"
          /\ result' = [status |-> "killed", text |-> "SIGALRM", payload |-> << >>]
          /\ UNCHANGED <<the_idl_txn, symtab, output, error>>
       \/ /\ alarm # "expired"
          /\ wait_timeout = "expired"
          /\ out_error(TimeoutExpired)
          /\ result' = result
       \/ /\ alarm # "expired"
          /\ wait_timeout # "expired"
          /\ IdlWake
          /\ pc' = "wait_run"
          /\ UNCHANGED <<the_idl_txn, symtab, output, error, result>>
    /\ UNCHANGED <<mode, registry, ctx, rpc, argv, cfgVars, dbVars, loopVars, c, status,
                   next_cfg, wait_timeout, alarm, out, exiting, nreq, hist>>


(* ------------------------------ daemon --------------------------------- *)
\* A server_loop that runs the control server in every iteration.
server_loop_ServeUnconnected ==
    /\ pc = "server_loop"
    /\ ovsdb_idl_run
    /\ IF ~idl'.alive
       THEN ctl_fatal(DatabaseConnectionFailed)
       ELSE /\ pc' = "unixctl"
            /\ result' = result
    /\ UNCHANGED <<mode, registry, ctx, rpc, argv, cfgVars, srv, loopVars, txnVars,
                   wait_timeout, alarm, out, exiting, nreq, hist>>

\* server_loop, lines 8039-8050: run the IDL, end the process if it is
\* not alive, and serve control requests only once it has connected.
server_loop ==
    /\ pc = "server_loop"
    /\ ovsdb_idl_run
    /\ IF ~idl'.alive
       THEN ctl_fatal(DatabaseConnectionFailed)
       ELSE /\ pc' = IF idl'.ever THEN "unixctl"
                     ELSE IF exiting THEN "exit" ELSE "srv_block"
            /\ result' = result
    /\ UNCHANGED <<mode, registry, ctx, rpc, argv, cfgVars, srv, loopVars, txnVars,
                   wait_timeout, alarm, out, exiting, nreq, hist>>

\* A loop that goes on to block whatever the flag says.
server_loop_wait_IgnoreExiting ==
    /\ pc = "unixctl"
    /\ pc' = "srv_block"
    /\ UNCHANGED <<mode, registry, ctx, rpc, argv, cfgVars, dbVars, loopVars, txnVars,
                   wait_timeout, alarm, out, result, exiting, nreq, hist>>

\* server_loop, lines 8051-8060, and main, lines 242-246: leave once
\* exiting is set, destroy the control server and exit with EXIT_SUCCESS;
\* else block on the IDL and the control server.
server_loop_wait ==
    /\ pc = "unixctl"
    /\ pc' = IF exiting THEN "exit" ELSE "srv_block"
    /\ result' = IF exiting THEN EXIT_SUCCESS ELSE result
    /\ UNCHANGED <<mode, registry, ctx, rpc, argv, cfgVars, dbVars, loopVars, txnVars,
                   wait_timeout, alarm, out, exiting, nreq, hist>>

server_loop_block ==
    /\ pc = "srv_block"
    /\ pc' = "server_loop"
    /\ UNCHANGED <<mode, registry, ctx, rpc, argv, cfgVars, dbVars, loopVars, txnVars,
                   wait_timeout, alarm, out, result, exiting, nreq, hist>>

\* An exit request served wherever the daemon is blocked.
server_cmd_exit_WhileBlocked ==
    /\ pc \in {"unixctl", "ml_block", "wait_block"}
    /\ ~exiting
    /\ exiting' = TRUE
    /\ result' = [status |-> "ok", text |-> "", payload |-> << >>]
    /\ UNCHANGED <<mode, registry, ctx, rpc, pc, argv, cfgVars, dbVars, loopVars, txnVars,
                   wait_timeout, alarm, out, nreq, hist>>

\* server_cmd_exit, lines 7910-7917: set the flag and reply with an empty
\* body.
server_cmd_exit ==
    /\ pc = "unixctl"
    /\ ~exiting
    /\ exiting' = TRUE
    /\ result' = [status |-> "ok", text |-> "", payload |-> << >>]
    /\ UNCHANGED <<mode, registry, ctx, rpc, pc, argv, cfgVars, dbVars, loopVars, txnVars,
                   wait_timeout, alarm, out, nreq, hist>>

\* server_cmd_run, lines 7997-8009 (out): free the request, its commands
\* and options and return into the control server.  Nothing of the
\* request remains but the file-scope configuration and the IDL.
server_cmd_run_out ==
    /\ pc = "replied"
    /\ pc' = "unixctl"
    /\ argv' = NoRequest
    /\ NoAttempt
    /\ seqno' = 0
    /\ idl_ready' = FALSE
    /\ retry' = "unset"
    /\ out' = << >>
    /\ result' = NoResult
    /\ hist' = NoHist
    /\ UNCHANGED <<mode, registry, ctx, rpc, cfgVars, dbVars, wait_timeout, alarm,
                   exiting, nreq>>

\* A reset that forgets wait_type.
ResetGlobalState_KeepWait == [Defaults EXCEPT !.wait_type = wait_type]

\* server_cmd_run, lines 7936-7942: reset global state.
ResetGlobalState == Defaults

\* unixctl_command_reply_error(conn, err); goto out.
reply_error(err) ==
    /\ result' = [status |-> "error", text |-> err, payload |-> << >>]
    /\ pc' = "replied"

\* server_cmd_run, lines 7919-7973: reset the configuration, apply the
\* request's options, parse its commands, start the timer if a timeout
\* was given, run the prerequisites and enter main_loop; an error of a
\* prerequisite callback is replied and ends the request.  An option that
\* is not recognised ends the request with the options before it applied:
\* these are any of the others, the order on the command line being free.
\* Requests come from clients, which forward neither --db nor their
\* environment.
server_cmd_run ==
    /\ pc = "unixctl"
    /\ nreq < MaxReqs
    /\ \E r \in Requests(registry) :
         \E S \in SUBSET (Given(r.opts) \ OtherOptionNames) :
           LET operr == OptionError(r.opts)
               g == server_parse_options(ResetGlobalState,
                                         IF operr # NULL
                                         THEN Restrict(r.opts, S) ELSE r.opts)
           IN
           /\ ~r.opts.db /\ ~r.opts.OVN_NB_DAEMON
           /\ operr = NULL => S = {}
           /\ argv' = r
           /\ IF operr # NULL
              THEN /\ reply_error(operr)
                   /\ SetConfig(g)
                   /\ wait_timeout' = NULL
              ELSE IF ctl_parse_commands(r.cmds) # NULL
              THEN /\ reply_error(ctl_parse_commands(r.cmds))
                   /\ SetConfig(g)
                   /\ wait_timeout' = NULL
              ELSE IF run_prerequisites_error(r.cmds) # NULL
              THEN /\ reply_error(run_prerequisites_error(r.cmds))
                   /\ SetConfig(run_prerequisites(r.cmds, 1, g))
                   /\ wait_timeout' = NULL
              ELSE /\ SetConfig(run_prerequisites(r.cmds, 1, g))
                   /\ wait_timeout' = IF g.timeout # 0 THEN "running" ELSE NULL
                   /\ pc' = "ml_run"
                   /\ result' = NoResult
           /\ hist' = [NoHist EXCEPT
                         !.dirty = (Config # Defaults),
                         !.pre = IF operr = NULL
                                    /\ ctl_parse_commands(r.cmds) = NULL
                                 THEN PrerequisitesRun(r.cmds, 1)
                                 ELSE << >>]
    /\ main_loop_enter
    /\ NoAttempt
    /\ nreq' = nreq + 1
    /\ out' = << >>
    /\ UNCHANGED <<mode, registry, ctx, rpc, dbVars, alarm, exiting>>

(* ------------------------------ client --------------------------------- *)
CouldNotConnect == "could not connect to ovn-nb daemon"

ClientTransactionError == "transaction error (End of file)"

\* What a daemon may reply to a "run" request: an error string, or the
\* formatted outputs of the commands.
DaemonErrors == {"entity not found", TimeoutExpired}

DaemonResults == {<< >>, <<"a", "\n">>}

\* nbctl_client, lines 8139-8175: connect to the daemon, send the "run"
\* request and wait for the reply; exit with EXIT_FAILURE and the error on
\* stderr if the reply carries an error, with EXIT_SUCCESS and the result
\* on stdout otherwise.  A connection or transport error is fatal, and
\* the process alarm ends the process at its deadline.
nbctl_client ==
    /\ pc = "client"
    /\ \/ /\ alarm = "expired"
          /\ pc' = "exit"
          /\ result' = [status |-> "killed", text |-> "SIGALRM",
                        payload |-> << >>]
          /\ UNCHANGED <<rpc, out>>
       \/ /\ alarm # "expired"
          /\ ctl_fatal(CouldNotConnect)
          /\ UNCHANGED <<rpc, out>>
       \/ /\ alarm # "expired"
          /\ ctl_fatal(ClientTransactionError)
          /\ rpc' = [rpc EXCEPT !.sent = TRUE]
          /\ out' = out
       \/ /\ alarm # "expired"
          /\ \E e \in DaemonErrors :
               /\ rpc' = [rpc EXCEPT !.sent = TRUE, !.reply = "error",
                                     !.cmd_error = e]
               /\ result' = [status |-> "error", text |-> e,
                             payload |-> << >>]
          /\ out' = out
          /\ pc' = "exit"
       \/ /\ alarm # "expired"
          /\ \E t \in DaemonResults :
               /\ rpc' = [rpc EXCEPT !.sent = TRUE, !.reply = "result",
                                     !.cmd_result = t]
               /\ out' = out \o <<[cmd |-> 0, text |-> t]>>
          /\ result' = EXIT_SUCCESS
          /\ pc' = "exit"
    /\ UNCHANGED <<mode, registry, ctx, argv, cfgVars, dbVars, loopVars, txnVars,
                   wait_timeout, alarm, exiting, nreq, hist>>

(* ---------------------------- environment ------------------------------ *)
\* The program observes the database when it blocks on the IDL and when it
\* commits, and the clock when it blocks; a change of the environment at
\* any other point is indistinguishable from the same change at the next
\* of these points, and a change while the daemon is idle from the same
\* change at the start of its next request.  The one exception is a
\* consumer that catches up between the commit and the first pass of the
\* wait loop when the request's timer has expired before: ConsumerEarly.
Blocked == pc \in {"ml_block", "wait_block"}

\* Another client changes the database.
ExtChange ==
    /\ Blocked \/ pc = "commit"
    /\ srv.ver < MaxExt
    /\ srv' = [srv EXCEPT !.ver = @ + 1]
    /\ UNCHANGED <<mode, registry, ctx, rpc, pc, argv, cfgVars, snap, idl, loopVars, txnVars,
                   wait_timeout, alarm, out, result, exiting, nreq, hist>>

\* A downstream consumer catches up with nb_cfg and reports it.
ConsumerSb ==
    /\ Blocked
    /\ srv.nb /\ srv.sb_cfg < srv.nb_cfg
    /\ srv' = [srv EXCEPT !.sb_cfg = srv.nb_cfg]
    /\ UNCHANGED <<mode, registry, ctx, rpc, pc, argv, cfgVars, snap, idl, loopVars, txnVars,
                   wait_timeout, alarm, out, result, exiting, nreq, hist>>

ConsumerHv ==
    /\ Blocked
    /\ srv.nb /\ srv.hv_cfg < srv.nb_cfg
    /\ srv' = [srv EXCEPT !.hv_cfg = srv.nb_cfg]
    /\ UNCHANGED <<mode, registry, ctx, rpc, pc, argv, cfgVars, snap, idl, loopVars, txnVars,
                   wait_timeout, alarm, out, result, exiting, nreq, hist>>

\* A consumer has caught up by the time the wait loop runs the IDL.
ConsumerEarly ==
    /\ pc = "wait_run"
    /\ srv.nb
    /\ \/ /\ srv.sb_cfg < srv.nb_cfg
          /\ srv' = [srv EXCEPT !.sb_cfg = srv.nb_cfg]
       \/ /\ srv.hv_cfg < srv.nb_cfg
          /\ srv' = [srv EXCEPT !.hv_cfg = srv.nb_cfg]
    /\ UNCHANGED <<mode, registry, ctx, rpc, pc, argv, cfgVars, snap, idl, loopVars, txnVars,
                   wait_timeout, alarm, out, result, exiting, nreq, hist>>

\* The deadline of the request's timer, or of the process alarm, passes.
TimerExpire ==
    /\ Blocked
    /\ wait_timeout = "running"
    /\ wait_timeout' = "expired"
    /\ UNCHANGED <<mode, registry, ctx, rpc, pc, argv, cfgVars, dbVars, loopVars, txnVars,
                   alarm, out, result, exiting, nreq, hist>>

\* The IDL stops being alive: its session is gone for good, or it has
\* entered its error state (ovsdb_idl_is_alive, lines 272 and 8042).
IdlError ==
    /\ Blocked
    /\ idl.alive /\ idl.ever
    /\ idl' = [idl EXCEPT !.alive = FALSE]
    /\ UNCHANGED <<mode, registry, ctx, rpc, pc, argv, cfgVars, srv, snap, loopVars,
                   txnVars, wait_timeout, alarm, out, result, exiting, nreq,
                   hist>>

AlarmExpire ==
    /\ Blocked \/ pc = "client"
    /\ alarm = "armed"
    /\ alarm' = "expired"
    /\ UNCHANGED <<mode, registry, ctx, rpc, pc, argv, cfgVars, dbVars, loopVars, txnVars,
                   wait_timeout, out, result, exiting, nreq, hist>>

(* ------------------------- command callbacks --------------------------- *)
\* A run callback is called by the loop of do_nbctl (line 7384) with the
\* command's arguments and options in ctx; what it finds in ctx.idl are the
\* rows of the replica with the changes the open transaction has made so
\* far.  A callback that leaves an error ends the attempt.

\* An ls-add that does not look at the switches there are.
nbctl_ls_add_NoLookup ==
    /\ pc = "run"
    /\ "ls-add" \in registry.commands
    /\ c <= MaxCmds
    /\ ctx.error = NULL
    /\ \E args \in {<<"ls-add">>} \cup {<<"ls-add", n>> : n \in {"", "sw0", "sw1"}},
          opts \in SUBSET {"--may-exist", "--add-duplicate"} :
         LET ls_name       == IF Len(args) = 2 THEN args[2] ELSE NULL
             may_exist     == "--may-exist" \in opts
             add_duplicate == "--add-duplicate" \in opts
             err == IF may_exist /\ add_duplicate
                    THEN "--may-exist and --add-duplicate may not be used together"
                    ELSE IF ls_name # NULL THEN NULL
                    ELSE IF may_exist
                    THEN "--may-exist requires specifying a name"
                    ELSE IF add_duplicate
                    THEN "--add-duplicate requires specifying a name"
                    ELSE NULL
             row == [name |-> IF ls_name # NULL THEN ls_name ELSE "",
                     acls |-> << >>]
         IN
         /\ ctx' = [idl |-> IF err = NULL
                            THEN [ctx.idl EXCEPT !.ls = Append(@, row)]
                            ELSE ctx.idl,
                    argv |-> args, options |-> opts, error |-> err]
         /\ the_idl_txn' = IF err = NULL
                           THEN [the_idl_txn EXCEPT !.muts = @ \cup {c}]
                           ELSE the_idl_txn
    /\ c' = c + 1
    /\ UNCHANGED <<mode, registry, rpc, pc, argv, cfgVars, dbVars, loopVars,
                   symtab, output, status, next_cfg, error, wait_timeout,
                   alarm, out, result, exiting, nreq, hist>>

\* nbctl_ls_add, lines 1191-1231, called with an optional name and any of
\* its options.  A switch inserted without a name keeps the column's
\* default, the empty string, which is what the strcmp of line 1208 and
\* of ls_by_name_or_uuid (line 898) reads in such a row.
nbctl_ls_add ==
    /\ pc = "run"
    /\ "ls-add" \in registry.commands
    /\ c <= MaxCmds
    /\ ctx.error = NULL
    /\ \E args \in {<<"ls-add">>} \cup {<<"ls-add", n>> : n \in {"", "sw0", "sw1"}},
          opts \in SUBSET {"--may-exist", "--add-duplicate"} :
         LET ls_name       == IF Len(args) = 2 THEN args[2] ELSE NULL
             may_exist     == "--may-exist" \in opts
             add_duplicate == "--add-duplicate" \in opts
             found == /\ ls_name # NULL
                      /\ ~add_duplicate
                      /\ \E i \in 1..Len(ctx.idl.ls) :
                            ctx.idl.ls[i].name = ls_name
             err == IF may_exist /\ add_duplicate
                    THEN "--may-exist and --add-duplicate may not be used together"
                    ELSE IF ls_name # NULL
                    THEN (IF found /\ ~may_exist
                          THEN "a switch with this name already exists"
                          ELSE NULL)
                    ELSE IF may_exist
                    THEN "--may-exist requires specifying a name"
                    ELSE IF add_duplicate
                    THEN "--add-duplicate requires specifying a name"
                    ELSE NULL
             row == [name |-> IF ls_name # NULL THEN ls_name ELSE "",
                     acls |-> << >>]
             inserts == err = NULL /\ ~found
         IN
         /\ ctx' = [idl |-> IF inserts
                            THEN [ctx.idl EXCEPT !.ls = Append(@, row)]
                            ELSE ctx.idl,
                    argv |-> args, options |-> opts, error |-> err]
         /\ the_idl_txn' = IF inserts
                           THEN [the_idl_txn EXCEPT !.muts = @ \cup {c}]
                           ELSE the_idl_txn
    /\ c' = c + 1
    /\ UNCHANGED <<mode, registry, rpc, pc, argv, cfgVars, dbVars, loopVars,
                   symtab, output, status, next_cfg, error, wait_timeout,
                   alarm, out, result, exiting, nreq, hist>>

\* A comparison that does not look at the match.
acl_cmp_IgnoreMatch(acl1, acl2) ==
    LET dir1 == IF acl1.direction = "from-lport" THEN 0 ELSE 1
        dir2 == IF acl2.direction = "from-lport" THEN 0 ELSE 1
    IN IF dir1 # dir2 THEN (IF dir1 < dir2 THEN -1 ELSE 1)
       ELSE IF acl1.priority # acl2.priority
       THEN (IF acl1.priority > acl2.priority THEN -1 ELSE 1)
       ELSE 0

\* acl_cmp, lines 3321-3339, with dir_encode (lines 3308-3318): by
\* direction, from-lport first, then by priority, the higher first, then
\* by strcmp of the matches, which here are "ip4" and "ip6".
acl_cmp(acl1, acl2) ==
    LET dir1 == IF acl1.direction = "from-lport" THEN 0 ELSE 1
        dir2 == IF acl2.direction = "from-lport" THEN 0 ELSE 1
        strcmp == IF acl1.match = acl2.match THEN 0
                  ELSE IF acl1.match = "ip4" THEN -1 ELSE 1
    IN IF dir1 # dir2 THEN (IF dir1 < dir2 THEN -1 ELSE 1)
       ELSE IF acl1.priority # acl2.priority
       THEN (IF acl1.priority > acl2.priority THEN -1 ELSE 1)
       ELSE strcmp

\* nbctl_acl_add, lines 3471-3561, called with a container's name, a
\* direction, a priority, a match and an action, with or without
\* --may-exist and --type; the logging options are left out.
\* acl_cmd_get_pg_or_ls (lines 3341-3378) finds the container: the port
\* group or the switch of that name; parse_direction (lines 3455-3469)
\* goes by the first letter; parse_priority (lines 1942-1956) accepts
\* 0...32767.  The ACL row is inserted into the transaction before the
\* container's list is searched for its like.
nbctl_acl_add ==
    /\ pc = "run"
    /\ "acl-add" \in registry.commands
    /\ c <= MaxCmds
    /\ ctx.error = NULL
    /\ \E target \in {"sw0", "pg0"},
          dirarg \in {"t", "from-lport", "x"},
          priority \in {1, 2, 32768},
          match \in {"ip4", "ip6"},
          action \in {"allow", "bogus"},
          opts \in {S \in SUBSET {"--may-exist", "--type=switch",
                                   "--type=port-group"} :
                      ~({"--type=switch", "--type=port-group"} \subseteq S)} :
         LET opt_type == IF "--type=switch" \in opts THEN "switch"
                         ELSE IF "--type=port-group" \in opts
                         THEN "port-group" ELSE NULL
             pgs == {i \in 1..Len(ctx.idl.pg) : ctx.idl.pg[i].name = target}
             lss == {i \in 1..Len(ctx.idl.ls) : ctx.idl.ls[i].name = target}
             multiple == "Multiple logical switches named.  Use a UUID."
             get_error ==
                 IF opt_type = NULL
                 THEN (IF Cardinality(lss) > 1 THEN multiple
                       ELSE IF pgs # {} /\ lss # {}
                       THEN "Same name exists in both port-groups and logical switches."
                       ELSE IF pgs = {} /\ lss = {}
                       THEN "is not found for port-group or switch."
                       ELSE NULL)
                 ELSE IF opt_type = "port-group"
                 THEN (IF pgs = {} THEN "port group name not found" ELSE NULL)
                 ELSE (IF Cardinality(lss) > 1 THEN multiple
                       ELSE IF lss = {} THEN "switch name not found"
                       ELSE NULL)
             tbl == IF opt_type = "port-group" \/ (opt_type = NULL /\ pgs # {})
                    THEN "pg" ELSE "ls"
             row == CHOOSE i \in (IF tbl = "pg" THEN pgs ELSE lss) : TRUE
             direction == IF dirarg \in {"to-lport", "t"} THEN "to-lport"
                          ELSE IF dirarg = "from-lport" THEN "from-lport"
                          ELSE NULL
             arg_error ==
                 IF get_error # NULL THEN get_error
                 ELSE IF direction = NULL
                 THEN "direction must be \"to-lport\" or \"from-lport\""
                 ELSE IF priority < 0 \/ priority > 32767
                 THEN "priority must in range 0...32767"
                 ELSE IF action \notin {"allow", "allow-related", "drop",
                                        "reject"}
                 THEN "action must be one of \"allow\", \"allow-related\", \"drop\", and \"reject\""
                 ELSE NULL
             acl == [direction |-> direction, priority |-> priority,
                     match |-> match, action |-> action]
             acls == ctx.idl[tbl][row].acls
             same == \E i \in 1..Len(acls) : acl_cmp(acls[i], acl) = 0
             err == IF arg_error # NULL THEN arg_error
                    ELSE IF same /\ "--may-exist" \notin opts
                    THEN "Same ACL already existed on the ls."
                    ELSE NULL
         IN
         /\ ctx' = [idl |-> IF arg_error = NULL /\ ~same
                            THEN [ctx.idl EXCEPT
                                    ![tbl][row].acls = Append(@, acl)]
                            ELSE ctx.idl,
                    argv |-> <<"acl-add", target, dirarg, priority, match,
                               action>>,
                    options |-> opts, error |-> err]
         /\ the_idl_txn' = IF arg_error = NULL
                           THEN [the_idl_txn EXCEPT !.muts = @ \cup {c}]
                           ELSE the_idl_txn
    /\ c' = c + 1
    /\ UNCHANGED <<mode, registry, rpc, pc, argv, cfgVars, dbVars, loopVars,
                   symtab, output, status, next_cfg, error, wait_timeout,
                   alarm, out, result, exiting, nreq, hist>>

(* --------------------------- specification ----------------------------- *)
Next ==
    \/ main
    \/ main_loop
    \/ main_loop_block
    \/ main_loop_return
    \/ do_nbctl_begin
    \/ do_nbctl_run
    \/ do_nbctl_symtab
    \/ do_nbctl_commit
    \/ do_nbctl_postprocess
    \/ do_nbctl_switch
    \/ do_nbctl_wait
    \/ do_nbctl_wait_block
    \/ server_loop
    \/ server_loop_wait
    \/ server_loop_block
    \/ server_cmd_exit
    \/ server_cmd_run
    \/ server_cmd_run_out
    \/ ExtChange
    \/ ConsumerSb
    \/ ConsumerHv
    \/ TimerExpire
    \/ AlarmExpire

\* Both modes, with a command that commits and one that fails in
\* postprocess, under the options --wait and --timeout.
Init == InitWith({"direct", "daemon"}, {"set", "postfail"},
                 {"wait", "timeout"})

Spec == Init /\ [][Next]_vars

\* One-shot mode: what main does without --detach.
NextOneShot ==
    \/ main
    \/ main_loop
    \/ main_loop_block
    \/ main_loop_return
    \/ do_nbctl_begin
    \/ do_nbctl_run
    \/ do_nbctl_symtab
    \/ do_nbctl_commit
    \/ do_nbctl_postprocess
    \/ do_nbctl_switch
    \/ do_nbctl_wait
    \/ do_nbctl_wait_block
    \/ ExtChange
    \/ ConsumerSb
    \/ ConsumerHv
    \/ AlarmExpire

InitOneShot == InitWith({"direct"}, {"set", "show", "fail", "wait", "postfail"},
                        {"wait", "timeout", "dry_run"})

SpecOneShot == InitOneShot /\ [][NextOneShot]_vars

\* One-shot mode with the commands that create and refer to symbols.
InitSymbols == InitWith({"direct"},
                        {"create@a", "ref@a", "ref@b", "weak@a"},
                        {"wait", "timeout"})

SpecSymbols == InitSymbols /\ [][NextOneShot]_vars

\* Daemon mode: what main does with --detach; no process alarm is armed.
NextDaemon ==
    \/ main
    \/ main_loop
    \/ main_loop_block
    \/ main_loop_return
    \/ do_nbctl_begin
    \/ do_nbctl_run
    \/ do_nbctl_symtab
    \/ do_nbctl_commit
    \/ do_nbctl_postprocess
    \/ do_nbctl_switch
    \/ do_nbctl_wait
    \/ do_nbctl_wait_block
    \/ server_loop
    \/ server_loop_wait
    \/ server_loop_block
    \/ server_cmd_exit
    \/ server_cmd_run
    \/ server_cmd_run_out
    \/ ExtChange
    \/ ConsumerSb
    \/ ConsumerHv
    \/ TimerExpire

\* The daemon serving requests with a command that commits and one whose
\* run callback asks for another attempt, under --wait and --timeout.
InitDaemon == InitWith({"daemon"}, {"set", "wait"}, {"wait", "timeout"})

SpecDaemon == InitDaemon /\ [][NextDaemon]_vars

\* The daemon under any of the options, on its own command line and in
\* its requests, with the command whose prerequisite callback touches the
\* configuration.
InitConfig == InitWith({"daemon"}, {"sync"}, OptionNames)

\* The daemon's steps while no request's timer expires (SpecDaemon has the
\* expiry): a request's timer is created and destroyed all the same. No
\* request blocks in main_loop here: the database is there when a request
\* arrives, and another attempt follows a change of it.
NextConfig ==
    \/ main
    \/ main_loop
    \/ main_loop_return
    \/ do_nbctl_begin
    \/ do_nbctl_run
    \/ do_nbctl_symtab
    \/ do_nbctl_commit
    \/ do_nbctl_postprocess
    \/ do_nbctl_switch
    \/ do_nbctl_wait
    \/ do_nbctl_wait_block
    \/ server_loop
    \/ server_loop_wait
    \/ server_loop_block
    \/ server_cmd_exit
    \/ server_cmd_run
    \/ server_cmd_run_out
    \/ ExtChange
    \/ ConsumerSb
    \/ ConsumerHv

SpecConfig == InitConfig /\ [][NextConfig]_vars

\* Both modes with the failures a batch can meet: a command that is not
\* in the table, an option that is in no table, a run callback that
\* reports an error or asks for another attempt, a commit that fails, a
\* timeout, and an IDL that stops being alive.
NextFailures ==
    \/ main
    \/ main_loop
    \/ main_loop_block
    \/ main_loop_return
    \/ do_nbctl_begin
    \/ do_nbctl_run
    \/ do_nbctl_symtab
    \/ do_nbctl_commit
    \/ do_nbctl_postprocess
    \/ do_nbctl_switch
    \/ do_nbctl_wait
    \/ do_nbctl_wait_block
    \/ server_loop
    \/ server_loop_wait
    \/ server_loop_block
    \/ server_cmd_exit
    \/ server_cmd_run
    \/ server_cmd_run_out
    \/ ExtChange
    \/ ConsumerSb
    \/ ConsumerHv
    \/ TimerExpire
    \/ AlarmExpire
    \/ IdlError

InitFailures == InitWith({"direct", "daemon"}, {"wait", "fail", "bogus"},
                         {"wait", "timeout", "unknown"})

SpecFailures == InitFailures /\ [][NextFailures]_vars

\* The daemon serving requests that never wait: a command that prints two
\* lines and one that creates a row and prints one line, under the
\* options that only touch the output.  The process is scheduled as
\* long as it has a step to take.
NextShutdown ==
    \/ main
    \/ main_loop
    \/ main_loop_return
    \/ do_nbctl_begin
    \/ do_nbctl_run
    \/ do_nbctl_symtab
    \/ do_nbctl_commit
    \/ do_nbctl_postprocess
    \/ do_nbctl_switch
    \/ server_loop
    \/ server_loop_wait
    \/ server_loop_block
    \/ server_cmd_exit
    \/ server_cmd_run
    \/ server_cmd_run_out

InitShutdown == InitWith({"daemon"}, {"show", "create@a"},
                         {"oneline", "format"})

SpecShutdown ==
    InitShutdown /\ [][NextShutdown]_vars /\ WF_vars(NextShutdown)

\* The three modes: direct, server (--detach) and client (OVN_NB_DAEMON),
\* with --db, a command that commits and one that is in no table.
NextModes ==
    \/ main
    \/ nbctl_client
    \/ main_loop
    \/ main_loop_block
    \/ main_loop_return
    \/ do_nbctl_begin
    \/ do_nbctl_run
    \/ do_nbctl_symtab
    \/ do_nbctl_commit
    \/ do_nbctl_postprocess
    \/ do_nbctl_switch
    \/ do_nbctl_wait
    \/ do_nbctl_wait_block
    \/ server_loop
    \/ server_loop_wait
    \/ server_loop_block
    \/ server_cmd_exit
    \/ server_cmd_run
    \/ server_cmd_run_out
    \/ ExtChange
    \/ ConsumerSb
    \/ ConsumerHv
    \/ TimerExpire
    \/ AlarmExpire

InitModes == InitWith({"direct", "daemon"}, {"set", "bogus"},
                      {"wait", "timeout", "db", "OVN_NB_DAEMON"})

SpecModes == InitModes /\ [][NextModes]_vars

\* An invocation without --detach, as a client of a daemon or in direct
\* mode, under the options that affect the execution.
NextClient ==
    \/ main
    \/ nbctl_client
    \/ main_loop
    \/ main_loop_block
    \/ main_loop_return
    \/ do_nbctl_begin
    \/ do_nbctl_run
    \/ do_nbctl_symtab
    \/ do_nbctl_commit
    \/ do_nbctl_postprocess
    \/ do_nbctl_switch
    \/ do_nbctl_wait
    \/ do_nbctl_wait_block
    \/ ExtChange
    \/ ConsumerSb
    \/ ConsumerHv
    \/ AlarmExpire

InitClient == InitWith({"direct"}, {"set", "show"},
                       {"wait", "timeout", "dry_run", "oneline", "format",
                        "db", "OVN_NB_DAEMON"})

SpecClient == InitClient /\ [][NextClient]_vars

\* The output loops: do_nbctl has committed a batch of two commands whose
\* run callbacks left any two texts in their output buffers, and is about
\* to print them (line 7471), with or without --oneline.
NextFormat ==
    \/ do_nbctl_switch
    \/ main_loop_return

InitFormat ==
    /\ mode \in {"direct", "daemon"}
    /\ registry = [commands |-> {"show"}, options |-> {"oneline"}]
    /\ ctx = NoContext
    /\ rpc = NoRpc
    /\ pc = "switch"
    /\ oneline \in BOOLEAN
    /\ argv = [opts |-> [NoOptions EXCEPT !.oneline = oneline],
               cmds |-> <<"show", "show">>]
    /\ dry_run = Defaults.dry_run
    /\ wait_type = Defaults.wait_type
    /\ force_wait = Defaults.force_wait
    /\ timeout = Defaults.timeout
    /\ table_style = Defaults.table_style
    /\ srv = [EmptyDb EXCEPT !.nb = TRUE]
    /\ snap = srv
    /\ idl = [seqno |-> 1, ever |-> TRUE, alive |-> TRUE]
    /\ seqno = 1
    /\ idl_ready = FALSE
    /\ retry = "unset"
    /\ the_idl_txn = [NoTxn EXCEPT !.open = TRUE]
    /\ symtab = EmptySymtab
    /\ c = 3
    /\ \E x, y \in Texts :
         output = [i \in 1..MaxCmds |-> IF i = 1 THEN x
                                        ELSE IF i = 2 THEN y ELSE << >>]
    /\ status = TXN_UNCHANGED
    /\ next_cfg = 0
    /\ error = NULL
    /\ wait_timeout = NULL
    /\ alarm = "off"
    /\ out = << >>
    /\ result = NoResult
    /\ exiting = FALSE
    /\ nreq = IF mode = "daemon" THEN 1 ELSE 0
    /\ hist = [NoHist EXCEPT !.attempts = 1]

SpecFormat == InitFormat /\ [][NextFormat]_vars

\* One-shot mode with attempts that stop at every place: a command that
\* creates a row, leaves output and has a postprocess callback, one whose
\* run callback asks for another attempt, one whose run callback does so
\* and reports an error, and one whose postprocess callback fails.
SpecRetry ==
    /\ InitWith({"direct"}, {"create@a", "wait", "failwait", "postfail"},
                {"wait", "timeout"})
    /\ [][NextOneShot]_vars

\* The daemon serving requests whose attempts are repeated and whose
\* outputs go into the reply.
SpecRetryDaemon ==
    /\ InitWith({"daemon"}, {"create@a", "wait"}, {"wait", "timeout"})
    /\ [][NextDaemon]_vars

\* Both modes with the one command whose run callback asks for another
\* attempt until the database has changed, under --wait and --timeout.
SpecSchedule ==
    /\ InitWith({"direct", "daemon"}, {"wait"}, {"wait", "timeout"})
    /\ [][Next]_vars

\* Both modes with the commands that have a prerequisite callback: sync,
\* and one whose callback reports an error.
SpecPrereq ==
    /\ InitWith({"direct", "daemon"}, {"sync", "prefail"}, {"wait", "timeout"})
    /\ [][Next]_vars

\* One-shot mode without a deadline, with a command that commits and one
\* whose run callback asks for another attempt, under --wait.  The process
\* and its environment are scheduled as long as they have a step to take,
\* and a connection that stays alive comes up: the session reconnects
\* until the server answers.
NextTermination ==
    \/ main
    \/ main_loop
    \/ main_loop_block
    \/ main_loop_return
    \/ do_nbctl_begin
    \/ do_nbctl_run
    \/ do_nbctl_symtab
    \/ do_nbctl_commit
    \/ do_nbctl_postprocess
    \/ do_nbctl_switch
    \/ do_nbctl_wait
    \/ do_nbctl_wait_block
    \/ ExtChange
    \/ ConsumerSb
    \/ ConsumerHv

SpecTermination ==
    /\ InitWith({"direct"}, {"set", "wait"}, {"wait"})
    /\ [][NextTermination]_vars
    /\ WF_vars(NextTermination)
    /\ SF_vars(main_loop /\ idl'.ever)

\* The daemon serving requests whose first attempt may have to wait for
\* the database to change, under --wait and --timeout, with consumers that
\* may have caught up before the wait loop looks at them.
NextDeadline ==
    \/ main
    \/ main_loop
    \/ main_loop_block
    \/ main_loop_return
    \/ do_nbctl_begin
    \/ do_nbctl_run
    \/ do_nbctl_symtab
    \/ do_nbctl_commit
    \/ do_nbctl_postprocess
    \/ do_nbctl_switch
    \/ do_nbctl_wait
    \/ do_nbctl_wait_block
    \/ server_loop
    \/ server_loop_wait
    \/ server_loop_block
    \/ server_cmd_exit
    \/ server_cmd_run
    \/ server_cmd_run_out
    \/ ExtChange
    \/ ConsumerSb
    \/ ConsumerHv
    \/ ConsumerEarly
    \/ TimerExpire

SpecDeadline ==
    /\ InitWith({"daemon"}, {"wait"}, {"wait", "timeout"})
    /\ [][NextDeadline]_vars

\* The run loop of do_nbctl calling ls-add, or acl-add, command after
\* command, in a transaction it has just opened on a connected IDL.  The
\* switches there are have names of their own; sw0 may hold an ACL, and so
\* may the port group, which is called pg0 or, like the switch, sw0.
NextCommands ==
    \/ nbctl_ls_add
    \/ nbctl_acl_add

InitCommands ==
    /\ mode = "direct"
    /\ \E family \in {"ls-add", "acl-add"} :
         /\ registry = [commands |-> {family}, options |-> {}]
         /\ \E names \in {<< >>, <<"sw0">>, <<"sw1">>, <<"">>,
                           <<"sw0", "sw1">>, <<"", "sw0">>},
               held \in [{"ls", "pg"} ->
                           {<< >>, <<[direction |-> "to-lport", priority |-> 1,
                                     match |-> "ip4", action |-> "allow"]>>}],
               group \in {"pg0", "sw0"} :
              ctx = [NoContext EXCEPT
                       !.idl = IF family = "ls-add"
                               THEN [ls |-> [i \in 1..Len(names) |->
                                               [name |-> names[i],
                                                acls |-> << >>]],
                                     pg |-> << >>]
                               ELSE [ls |-> <<[name |-> "sw0",
                                               acls |-> held["ls"]]>>,
                                     pg |-> <<[name |-> group,
                                               acls |-> held["pg"]]>>]]
    /\ rpc = NoRpc
    /\ pc = "run"
    /\ argv = NoRequest
    /\ oneline = Defaults.oneline
    /\ dry_run = Defaults.dry_run
    /\ wait_type = Defaults.wait_type
    /\ force_wait = Defaults.force_wait
    /\ timeout = Defaults.timeout
    /\ table_style = Defaults.table_style
    /\ srv = [EmptyDb EXCEPT !.nb = TRUE]
    /\ snap = srv
    /\ idl = [seqno |-> 1, ever |-> TRUE, alive |-> TRUE]
    /\ seqno = 1
    /\ idl_ready = FALSE
    /\ retry = "unset"
    /\ the_idl_txn = [NoTxn EXCEPT !.open = TRUE]
    /\ symtab = EmptySymtab
    /\ c = 1
    /\ output = NoOutput
    /\ status = TXN_UNCOMMITTED
    /\ next_cfg = 0
    /\ error = NULL
    /\ wait_timeout = NULL
    /\ alarm = "off"
    /\ out = << >>
    /\ result = NoResult
    /\ exiting = FALSE
    /\ nreq = 0
    /\ hist = [NoHist EXCEPT !.attempts = 1]

SpecCommands == InitCommands /\ [][NextCommands]_vars

TypeOK ==
    /\ mode \in {"direct", "daemon"}
    /\ registry.commands \subseteq Kinds \cup {"ls-add", "acl-add"}
    /\ registry.options \subseteq OptionNames \cup OtherOptionNames
    /\ ctx.options \subseteq {"--may-exist", "--add-duplicate",
                              "--type=switch", "--type=port-group"}
    /\ argv \in Requests(registry)
    /\ wait_type \in {NBCTL_WAIT_NONE, NBCTL_WAIT_SB, NBCTL_WAIT_HV}
    /\ retry \in {"unset", "true", "false"}
    /\ wait_timeout \in {NULL, "running", "expired"}
    /\ alarm \in {"off", "armed", "expired"}
    /\ nreq \in 0..MaxReqs
    /\ rpc.cmd_error \in DaemonErrors \cup {NULL}
    /\ rpc.cmd_result \in DaemonResults
    /\ rpc.reply \in {"none", "error", "result"}


(* ------------------------------ properties ----------------------------- *)
\* Errors a run callback reports.
RunErrors == {"entity not found",
              "row id may only be specified on one --id option"}

\* do_nbctl has returned to main_loop.
Returned == pc = "ml_ret"

\* The invocation is over: main has exited, or server_cmd_run has replied.
Over == pc \in {"exit", "replied"} /\ result.status # "none"

\* C1 - Atomicity: when a run callback reports an error during an attempt,
\* the transaction of that attempt is aborted and never committed, none of
\* the batch's mutations is in the database afterwards, and the error is
\* what the caller gets.
C1_Atomicity ==
    /\ [](Returned /\ error \in RunErrors =>
            /\ ~the_idl_txn.open
            /\ status = TXN_UNCOMMITTED
            /\ ~hist.committed
            /\ hist.applied = {})
    /\ [](Over /\ result.text \in RunErrors =>
            /\ result.status = "error"
            /\ ~hist.committed
            /\ hist.applied = {})
    /\ [][Returned /\ error \in RunErrors =>
            /\ result'.status = "error"
            /\ result'.text = error
            /\ srv' = srv]_vars

\* A mutation was proposed by the first command and the second one failed.
C1_Witness ==
    /\ Returned
    /\ error \in RunErrors
    /\ Len(argv.cmds) = 2
    /\ argv.cmds[1] = "set"
    /\ argv.cmds[2] = "fail"

C3_AsStated ==
    Returned /\ status # TXN_UNCOMMITTED =>
        /\ status = TXN_TRY_AGAIN => error = NULL /\ retry = "true"
        /\ status \in {TXN_ERROR, TXN_ABORTED, TXN_NOT_LOCKED} => error # NULL
        /\ status \in {TXN_SUCCESS, TXN_UNCHANGED} =>
               error = NULL /\ retry = "false"
        /\ retry = "true" => status = TXN_TRY_AGAIN

\* C3 - commit outcome mapping, amended: as stated, except that after
\* TXN_SUCCESS or TXN_UNCHANGED the outcome is an error when a postprocess
\* callback reports one or when the convergence wait times out; such an
\* attempt is never retried.
C3_CommitMapping ==
    Returned /\ status # TXN_UNCOMMITTED =>
        /\ status = TXN_TRY_AGAIN => error = NULL /\ retry = "true"
        /\ status \in {TXN_ERROR, TXN_ABORTED, TXN_NOT_LOCKED} =>
               error # NULL /\ retry # "true"
        /\ status \in {TXN_SUCCESS, TXN_UNCHANGED} =>
               \/ error = NULL /\ retry = "false"
               \/ /\ error = "postprocess failed"
                  /\ \E i \in 1..Len(argv.cmds) : argv.cmds[i] = "postfail"
                  /\ retry # "true"
               \/ /\ error = TimeoutExpired
                  /\ hist.waited
                  /\ retry # "true"
        /\ retry = "true" => status = TXN_TRY_AGAIN

\* A commit failure that is not a conflict has been turned into an error.
C3_Witness ==
    Returned /\ status = TXN_ERROR /\ error = "transaction error"

\* The counter of the consumer the invocation's --wait option names.
ConfiguredCounter(row) ==
    IF argv.opts.wait = "sb" THEN row.sb_cfg ELSE row.hv_cfg

\* C4 - Wait semantics: with wait mode sb or hv, after a commit that
\* incremented nb_cfg to V, do_nbctl returns success only with a snapshot
\* whose NB_Global counter of the configured consumer is at least V, and a
\* refresh that shows such a counter ends the wait with success at once.
C4_WaitSemantics ==
    /\ [](Returned /\ error = NULL /\ retry = "false"
          /\ wait_type # NBCTL_WAIT_NONE /\ hist.V > 0 =>
            /\ hist.waited
            /\ next_cfg = hist.V
            /\ snap.nb
            /\ ConfiguredCounter(snap) >= hist.V)
    /\ [][pc = "wait_run" /\ pc' # "wait_run" =>
            IF snap'.nb /\ ConfiguredCounter(snap') >= next_cfg
            THEN Returned' /\ error' = NULL /\ retry' = "false"
            ELSE pc' = "wait_block"]_vars

\* A wait for the hypervisors that had to block: the southbound counter
\* had caught up before, the hypervisor counter only now.
C4_Witness ==
    /\ Returned
    /\ error = NULL
    /\ wait_type = NBCTL_WAIT_HV
    /\ hist.V = 1
    /\ snap.hv_cfg = 1
    /\ snap.sb_cfg = 1

\* C5 as stated - wait timeout: whenever the deadline has passed when the
\* convergence wait stops blocking, the invocation fails with "timeout
\* expired", in one-shot mode as in daemon mode.
C5_AsStated ==
    [][pc = "wait_block" /\ pc' # "wait_block"
       /\ (wait_timeout = "expired" \/ alarm = "expired") =>
            error' = TimeoutExpired]_vars

\* C5 - wait timeout, amended: in daemon mode a request with a timeout
\* fails with "timeout expired" once its timer has expired in the
\* convergence wait, and the wait never stays blocked on an expired timer;
\* in one-shot mode do_nbctl is given no timer and never reports "timeout
\* expired": there the wait is ended only by the process alarm armed by
\* ctl_timeout_setup.
C5_WaitTimeout ==
    /\ [][pc = "wait_block" /\ pc' # "wait_block"
          /\ wait_timeout = "expired" =>
            /\ Returned'
            /\ error' = TimeoutExpired]_vars
    /\ [](pc = "wait_block" /\ wait_timeout = "expired" =>
            ENABLED do_nbctl_wait_block)
    /\ [](Over /\ result.text = TimeoutExpired =>
            /\ mode = "daemon"
            /\ result.status = "error"
            /\ argv.opts.timeout # 0)
    /\ [](mode = "direct" =>
            /\ wait_timeout = NULL
            /\ error # TimeoutExpired
            /\ result.text # TimeoutExpired)

\* A daemon request timed out in the convergence wait, after its commit.
C5_Witness ==
    /\ mode = "daemon"
    /\ pc = "replied"
    /\ result.text = TimeoutExpired
    /\ hist.waited
    /\ hist.committed

\* C6 - No-op wait: a commit that is TXN_UNCHANGED never enters the
\* convergence wait, whatever the wait mode; the wait is entered, and a
\* wait target is set, only with a wait mode other than none and a commit
\* that was TXN_SUCCESS.
C6_NoOpWait ==
    /\ status = TXN_UNCHANGED => pc \notin {"wait_run", "wait_block"}
                                 /\ ~hist.waited
    /\ pc \in {"wait_run", "wait_block"} \/ hist.waited \/ next_cfg # 0 =>
         wait_type # NBCTL_WAIT_NONE /\ status = TXN_SUCCESS

\* An unchanged commit returned at once although a wait was configured.
C6_Witness ==
    /\ Returned
    /\ status = TXN_UNCHANGED
    /\ wait_type # NBCTL_WAIT_NONE
    /\ error = NULL
    /\ retry = "false"


\* The symbols a batch refers to, and those it creates, wherever in the
\* batch.
Refs(cmds) ==
    {x \in Symbols : \E i \in 1..Len(cmds) :
        \/ x = "a" /\ cmds[i] \in {"ref@a", "weak@a"}
        \/ x = "b" /\ cmds[i] = "ref@b"}

Creates(cmds) ==
    {x \in Symbols : \E i \in 1..Len(cmds) : x = "a" /\ cmds[i] = "create@a"}

NeverCreatedErrors == {NeverCreated(x) : x \in Symbols}

\* C7 - Symbol resolution: if the symbol table holds a symbol that is not
\* created once all commands of the attempt have run, do_nbctl fails with
\* 'row id "<name>" is referenced but never created' for such a symbol,
\* before any commit: the transaction is aborted uncommitted and the
\* database is untouched; otherwise the attempt goes on to commit.
C7_SymbolResolution ==
    /\ [][pc = "symtab" /\ pc' # "symtab" =>
            LET pending == {x \in Symbols :
                              symtab[x].declared /\ ~symtab[x].created}
            IN IF pending # {}
               THEN /\ Returned'
                    /\ \E x \in pending : error' = NeverCreated(x)
                    /\ ~the_idl_txn'.open
                    /\ status' = TXN_UNCOMMITTED
                    /\ srv' = srv
               ELSE pc' = "commit" /\ error' = NULL]_vars
    /\ [](Returned /\ error \in NeverCreatedErrors =>
            /\ status = TXN_UNCOMMITTED
            /\ ~hist.committed
            /\ hist.applied = {}
            /\ retry # "true")

\* A batch that referred to b, which nothing creates, after creating a.
C7_Witness ==
    /\ Returned
    /\ error = NeverCreated("b")
    /\ argv.cmds = <<"create@a", "ref@b">>

\* Some command of the batch refers to a symbol that no earlier command
\* has created.
ForwardRef(cmds) ==
    \E i \in 1..Len(cmds) :
        /\ cmds[i] \in {"ref@a", "weak@a"}
        /\ \A j \in 1..(i - 1) : cmds[j] # "create@a"

\* C8 as stated - no forward reference: an attempt in which a command
\* refers to a symbol that no earlier command has created fails with
\* "referenced but never created" and so never reaches the commit, even if
\* a later command creates the symbol.
C8_AsStated ==
    pc = "commit" => ~ForwardRef(argv.cmds)

\* C8 - references and creation order, amended: an attempt whose commands
\* all ran fails with "referenced but never created" exactly when some
\* symbol it refers to is created by no command of the batch; a reference
\* may precede the command that creates the symbol, because the created
\* flags are validated only after every command has run.
C8_ForwardReference ==
    /\ [][pc = "symtab" /\ pc' # "symtab" =>
            IF Refs(argv.cmds) \subseteq Creates(argv.cmds)
            THEN pc' = "commit" /\ error' = NULL
            ELSE /\ Returned'
                 /\ error' \in {NeverCreated(x) :
                                  x \in Refs(argv.cmds) \ Creates(argv.cmds)}]_vars
    /\ [](error \in NeverCreatedErrors =>
            ~(Refs(argv.cmds) \subseteq Creates(argv.cmds)))

\* A reference that precedes the creation of its symbol reached the commit.
C8_Witness ==
    /\ pc = "commit"
    /\ argv.cmds = <<"ref@a", "create@a">>

\* C9 - Deadline during retry: when the timer of the request has expired
\* while main_loop is blocked waiting for the sequence number to change
\* after a RETRY, main_loop leaves the block by returning "timeout
\* expired".
C9_DeadlineDuringRetry ==
    [][pc = "ml_block" /\ pc' # "ml_block" /\ retry = "true"
       /\ wait_timeout = "expired" =>
            /\ pc' = "replied"
            /\ result'.status = "error"
            /\ result'.text = TimeoutExpired]_vars

\* The configuration a request asks for, from its own options and
\* commands alone.
Asked(r) ==
    [oneline     |-> r.opts.oneline,
     dry_run     |-> r.opts.dry_run,
     wait_type   |-> CASE r.opts.wait = "sb" -> NBCTL_WAIT_SB
                       [] r.opts.wait = "hv" -> NBCTL_WAIT_HV
                       [] OTHER -> NBCTL_WAIT_NONE,
     force_wait  |-> /\ r.opts.wait # "unset"
                     /\ \E i \in 1..Len(r.cmds) : r.cmds[i] = "sync",
     timeout     |-> r.opts.timeout,
     table_style |-> IF r.opts.format = "json" THEN "json"
                     ELSE "TABLE_STYLE_DEFAULT"]

\* C10 - Daemon isolation: while the daemon executes a request, and when
\* it replies, oneline, dry_run, wait_type, force_wait, timeout and the
\* table style are what the request's own options and commands ask for,
\* whatever the configuration the previous request (or the daemon's own
\* command line) had left behind; the request's timer exists exactly if
\* the request gave a timeout.
C10_DaemonIsolation ==
    mode = "daemon" /\ pc \notin {"main", "server_loop", "srv_block",
                                 "unixctl", "exit"} =>
        /\ Config = Asked(argv)
        /\ pc # "replied" => (wait_timeout # NULL <=> argv.opts.timeout # 0)

\* A second request without options runs with the defaults although the
\* first one had left another configuration behind.
C10_Witness ==
    /\ mode = "daemon"
    /\ nreq = 2
    /\ pc = "commit"
    /\ hist.dirty
    /\ argv.opts = NoOptions
    /\ Config = Defaults

\* The positions of server_cmd_run between its start and its return.
RequestPcs == {"ml_run", "ml_block", "ml_ret", "do_nbctl", "run", "symtab",
               "commit", "postprocess", "switch", "wait_run", "wait_block",
               "replied"}

\* The daemon is serving a request.
Serving == mode = "daemon" /\ pc \in RequestPcs

\* The request or invocation 'r' does not parse: it gives an option or
\* names a command that is in no table.
ParseFails(r) ==
    r.opts.unknown \/ \E i \in 1..Len(r.cmds) : r.cmds[i] = "bogus"

\* C11 as stated - daemon failures: a failure met while the daemon serves
\* a request (parse error, command error, commit error, lost database
\* connection, timeout) fails only that request, with an error reply, and
\* never terminates the daemon process.
C11_AsStated ==
    /\ [][Serving => pc' # "exit"]_vars
    /\ [][Serving /\ pc = "ml_ret" /\ error # NULL =>
            pc' = "replied" /\ result'.status = "error"]_vars

\* C11 - daemon failures, amended: an option or command parse error and
\* every error main_loop returns (command error, commit error, timeout of
\* the convergence wait) fail only that request: the reply carries the
\* error, server_cmd_run returns into the control server with the IDL and
\* the exiting flag as they were, and the next request can be served.  The
\* daemon process is ended while it serves a request only by an IDL that
\* is no longer alive: main_loop then calls ctl_fatal with "database
\* connection failed" and no reply is sent.
C11_DaemonFailures ==
    /\ [][Serving /\ pc' = "exit" =>
            /\ pc = "ml_run"
            /\ ~idl'.alive
            /\ result'.status = "error"
            /\ result'.text = DatabaseConnectionFailed]_vars
    /\ [][Serving /\ pc = "ml_ret" /\ error # NULL =>
            /\ pc' = "replied"
            /\ result'.status = "error"
            /\ result'.text = error]_vars
    /\ [][mode = "daemon" /\ pc = "unixctl" /\ nreq' = nreq + 1
          /\ ParseFails(argv') =>
            /\ pc' = "replied"
            /\ result'.status = "error"
            /\ result'.text \in {OptionError(argv'.opts),
                                 ctl_parse_commands(argv'.cmds)} \ {NULL}]_vars
    /\ [][mode = "daemon" /\ pc = "replied" =>
            /\ pc' = "unixctl"
            /\ idl' = idl
            /\ exiting' = exiting]_vars
    /\ [](mode = "daemon" /\ pc = "replied" => ENABLED server_cmd_run_out)
    /\ [](mode = "daemon" /\ pc = "unixctl" /\ nreq < MaxReqs =>
            ENABLED server_cmd_run)

\* The daemon process has ended, without an exit request, while its
\* second request was waiting for the database to change.
C11_Witness ==
    /\ mode = "daemon"
    /\ pc = "exit"
    /\ ~exiting
    /\ nreq = 2
    /\ argv.cmds = <<"wait">>
    /\ ~idl.alive
    /\ result.text = DatabaseConnectionFailed

\* C13 - Usage bounds: when the options or the commands of an invocation
\* or daemon request do not parse, it ends with that error - the process
\* exits, the daemon replies - before run_prerequisites, main_loop or
\* do_nbctl is entered: no attempt is made, no transaction is opened, no
\* timer or alarm is started, and the IDL and the database are untouched.
C13_UsageBounds ==
    /\ [][((pc = "main" /\ (mode = "direct" \/ argv.opts.unknown))
           \/ (pc = "unixctl" /\ nreq' = nreq + 1))
          /\ ParseFails(argv') =>
            /\ pc' = IF pc = "main" THEN "exit" ELSE "replied"
            /\ result'.status = "error"
            /\ result'.text \in {OptionError(argv'.opts),
                                 ctl_parse_commands(argv'.cmds)} \ {NULL}
            /\ ~the_idl_txn'.open
            /\ hist'.attempts = 0
            /\ wait_timeout' = NULL
            /\ alarm' = alarm
            /\ force_wait' = Defaults.force_wait
            /\ srv' = srv /\ snap' = snap /\ idl' = idl]_vars
    /\ [](ParseFails(argv) =>
            /\ pc \in {"main", "exit", "replied"}
            /\ hist.attempts = 0
            /\ ~the_idl_txn.open
            /\ ~hist.committed
            /\ hist.applied = {})

\* The daemon has replied to its second request, whose second command is
\* in no table, with the parser's error.
C13_Witness ==
    /\ mode = "daemon"
    /\ pc = "replied"
    /\ nreq = 2
    /\ argv.cmds = <<"wait", "bogus">>
    /\ result.status = "error"
    /\ result.text = ctl_parse_commands(argv.cmds)
    /\ hist.attempts = 0

\* The positions of do_nbctl at which its transaction exists.
TxnPcs == {"run", "symtab", "commit", "postprocess", "switch", "wait_run",
           "wait_block"}

\* C12 - Serial requests: from the start of a request by server_cmd_run
\* until its reply has been sent and server_cmd_run has returned, no other
\* request, run or exit, is started - also while the request is blocked
\* waiting for a snapshot change or for convergence; a transaction is
\* open only inside the one request being served, and a request starts
\* with no transaction open and nothing left of the previous one.
C12_SerialRequests ==
    /\ [][Serving => nreq' = nreq /\ exiting' = exiting]_vars
    /\ [][nreq' # nreq \/ exiting' # exiting =>
            /\ pc = "unixctl"
            /\ argv = NoRequest
            /\ ~the_idl_txn.open
            /\ symtab = EmptySymtab]_vars
    /\ [](Serving /\ Blocked =>
            ~ENABLED server_cmd_run /\ ~ENABLED server_cmd_exit)
    /\ [](the_idl_txn.open => pc \in TxnPcs /\ hist.attempts >= 1)

\* The second request is blocked in the convergence wait, its transaction
\* still open, and no exit request has been served.
C12_Witness ==
    /\ mode = "daemon"
    /\ nreq = 2
    /\ pc = "wait_block"
    /\ the_idl_txn.open
    /\ ~exiting

RECURSIVE Unescape(_, _)
Unescape(t, j) ==
    IF j > Len(t) THEN << >>
    ELSE IF t[j] = "\\" /\ j < Len(t)
    THEN <<(IF t[j + 1] = "n" THEN "\n" ELSE t[j + 1])>> \o Unescape(t, j + 2)
    ELSE <<t[j]>> \o Unescape(t, j + 1)

\* The number of characters of t that are in the set S.
Count(t, S) == Cardinality({j \in 1..Len(t) : t[j] \in S})

\* C14 - Oneline encoding: with --oneline, what the output loop writes for
\* a command is its output less at most one trailing newline, with every
\* remaining newline rendered as backslash+n and every backslash doubled,
\* all other characters unchanged, and one real newline appended: the
\* written text holds exactly one newline, its last character (also for an
\* empty output), and two outputs are written alike only if they are
\* equal after the chomp.
C14_OnelineEncoding ==
    [][pc = "switch" /\ oneline /\ Len(out') = Len(out) + 2 =>
         /\ \A i \in 1..2 :
              LET x == output[i]
                  y == output'[i]
                  t == out'[Len(out) + i].text
                  e == SubSeq(t, 1, Len(t) - 1)
              IN /\ out'[Len(out) + i].cmd = i
                 /\ y = x \/ (y \o <<"\n">> = x)
                 /\ (Len(x) > 0 /\ x[Len(x)] = "\n") => y # x
                 /\ Len(t) >= 1
                 /\ t[Len(t)] = "\n"
                 /\ Count(t, {"\n"}) = 1
                 /\ Len(e) = Len(y) + Count(y, {"\n", "\\"})
                 /\ Unescape(e, 1) = y
         /\ out'[Len(out) + 1].text = out'[Len(out) + 2].text =>
              output'[1] = output'[2]]_vars

\* An output of two newlines around a backslash was written on one line,
\* and an empty output as a bare newline.
C14_Witness ==
    /\ pc = "ml_ret"
    /\ oneline
    /\ Len(out) = 2
    /\ out[1].text = <<"\\", "n", "\\", "\\", "\n">>
    /\ output[1] = <<"\n", "\\">>
    /\ out[2].text = <<"\n">>

\* The commands before position i of the batch have run, the others not:
\* read off the output buffers, which a run callback fills.
RanBefore(i) ==
    \A j \in 1..N : output[j] = IF j < i THEN RunOutput(argv.cmds[j])
                                 ELSE << >>

\* C15 - Ordering: within an attempt the run callbacks are invoked in the
\* order of the batch, command i+1 only once command i has finished, all
\* of them on the one transaction and symbol table of the attempt, which
\* only grow; and the outputs are written to stdout, and put into the
\* daemon's reply, in that same order, one per command.
C15_Ordering ==
    /\ [](pc = "run" => c \in 1..N /\ RanBefore(c) /\ the_idl_txn.open)
    /\ [][pc = "do_nbctl" => c' = 1]_vars
    /\ [][pc = "run" /\ pc' \in {"run", "symtab"} =>
            /\ c' = c + 1
            /\ (pc' = "symtab") = (c = N)
            /\ RanBefore(c)'
            /\ the_idl_txn'.open
            /\ the_idl_txn.muts \subseteq the_idl_txn'.muts
            /\ \A x \in Symbols :
                 /\ symtab[x].declared => symtab'[x].declared
                 /\ symtab[x].created => symtab'[x].created]_vars
    /\ [](Len(out) \in {0, N})
    /\ [](\A j \in 1..Len(out) :
            /\ out[j].cmd = j
            /\ out[j].text = Formatted(RunOutput(argv.cmds[j])))
    /\ [](pc = "replied" /\ result.status = "ok" =>
            /\ Len(result.payload) = N
            /\ Len(out) = N
            /\ \A j \in 1..N : result.payload[j] = out[j])

\* The daemon has replied with the two lines of the first command before
\* the one line of the second.
C15_Witness ==
    /\ pc = "replied"
    /\ result.status = "ok"
    /\ argv.cmds = <<"show", "create@a">>
    /\ ~oneline
    /\ result.payload = <<[cmd |-> 1, text |-> <<"a", "\n", "a", "\n">>],
                          [cmd |-> 2, text |-> <<"a", "\n">>]>>
    /\ out = result.payload

\* C16 - Dry run: with --dry-run every transaction do_nbctl creates, on
\* the first attempt and on every retry, is marked dry-run from its
\* creation, before any command runs; no commit of the batch is applied
\* to the database: neither its mutations nor the NB_Global row nor an
\* nb_cfg increment reach the server.
C16_DryRun ==
    /\ [](pc \notin {"main", "exit"} => dry_run = argv.opts.dry_run)
    /\ [](the_idl_txn.open /\ dry_run => the_idl_txn.dry_run)
    /\ [][pc = "do_nbctl" /\ dry_run =>
            pc' \in {"run", "symtab"} /\ the_idl_txn'.dry_run]_vars
    /\ [][dry_run /\ pc = "commit" /\ pc' # "commit" => srv' = srv]_vars
    /\ [][dry_run => srv'.nb = srv.nb /\ srv'.nb_cfg = srv.nb_cfg]_vars
    /\ [](dry_run => ~hist.committed /\ hist.applied = {})

\* The second attempt of a dry run, after a conflict, got TXN_SUCCESS and
\* the invocation succeeded with nothing committed.
C16_Witness ==
    /\ Over
    /\ result.status = "ok"
    /\ dry_run
    /\ argv.cmds = <<"set">>
    /\ hist.attempts = 2
    /\ hist.conflicts = 1
    /\ status = TXN_SUCCESS
    /\ ~srv.nb

ApplyToken(o, t) ==
    CASE t = "--wait=sb"     -> [o EXCEPT !.wait = "sb"]
      [] t = "--wait=hv"     -> [o EXCEPT !.wait = "hv"]
      [] t = "--timeout=1"   -> [o EXCEPT !.timeout = 1]
      [] t = "--dry-run"     -> [o EXCEPT !.dry_run = TRUE]
      [] t = "--oneline"     -> [o EXCEPT !.oneline = TRUE]
      [] t = "--format=json" -> [o EXCEPT !.format = "json"]
      [] OTHER               -> [o EXCEPT !.unknown = TRUE]

\* The request server_cmd_run reads from the argument vector 'args' from
\* position i on: options up to "--", then the commands.
RECURSIVE server_getopt(_, _, _)
server_getopt(args, i, o) ==
    IF i > Len(args) THEN [opts |-> o, cmds |-> << >>]
    ELSE IF args[i] = "--"
    THEN [opts |-> o, cmds |-> SubSeq(args, i + 1, Len(args))]
    ELSE server_getopt(args, i + 1, ApplyToken(o, args[i]))

\* The options of an invocation that affect the execution of the batch.
Affecting(o) == [o EXCEPT !.db = FALSE, !.OVN_NB_DAEMON = FALSE]

\* C18 as stated - request payload: the "run" request carries every
\* option of the invocation that affects execution (wait mode, timeout,
\* dry-run, oneline, output format) and then the command tokens in their
\* order: the daemon reads from it the request the invocation would have
\* executed in one-shot mode.
C18_AsStated ==
    pc = "client" =>
        server_getopt(rpc.args, 1, NoOptions) =
            [opts |-> Affecting(argv.opts), cmds |-> argv.cmds]

\* C18 - request payload, amended: the "run" request carries every option
\* of the invocation that affects execution except the timeout, then
\* "--", then the command tokens in their order; the daemon reads from it
\* the commands of the invocation and the configuration one-shot mode
\* would run them with, but without a timeout: the client applies the
\* timeout to itself with ctl_timeout_setup.
C18_RequestPayload ==
    pc = "client" =>
        LET r == server_getopt(rpc.args, 1, NoOptions) IN
        /\ r.cmds = argv.cmds
        /\ r.opts = [Affecting(argv.opts) EXCEPT !.timeout = 0]
        /\ server_parse_options(Defaults, r.opts) =
               [apply_options_direct(Defaults, argv.opts) EXCEPT !.timeout = 0]
        /\ \E k \in 1..Len(rpc.args) :
              /\ rpc.args[k] = "--"
              /\ SubSeq(rpc.args, k + 1, Len(rpc.args)) = argv.cmds
              /\ \A j \in 1..(k - 1) : rpc.args[j] \notin {"--", "--timeout=1"}
        /\ timeout = argv.opts.timeout
        /\ (alarm = "off") = (argv.opts.timeout = 0)

\* A client given --wait=sb and --timeout=1 is about to send a request
\* that holds the wait mode and the two commands, and has armed its alarm.
C18_Witness ==
    /\ pc = "client"
    /\ argv.opts.timeout = 1
    /\ argv.opts.wait = "sb"
    /\ rpc.args = <<"--wait=sb", "--", "set", "show">>
    /\ alarm = "armed"

\* C19 - Exit codes: a process exits with EXIT_SUCCESS only on success:
\* in direct mode when main_loop has returned without error, in server
\* mode after an exit request; every fatal outcome and usage error ends it
\* with a failure status.  In client mode, once the daemon has replied,
\* the exit status is failure exactly when the reply carries an error
\* string, and the reply's text is written to stdout only on success.
C19_ExitCodes ==
    /\ [][pc # "exit" /\ pc' = "exit" /\ mode = "direct" /\ pc # "client" =>
            /\ (result'.status = "ok") =
                   (pc = "ml_ret" /\ error = NULL /\ retry = "false")
            /\ result'.status \in {"ok", "error", "killed"}]_vars
    /\ [](pc = "exit" /\ result.status = "ok" /\ mode = "direct"
          /\ rpc = NoRpc =>
            /\ hist.attempts >= 1
            /\ status \in {TXN_SUCCESS, TXN_UNCHANGED}
            /\ error = NULL
            /\ ~ParseFails(argv))
    /\ [][pc = "main" /\ pc' = "exit" => result'.status = "error"]_vars
    /\ [][pc # "exit" /\ pc' = "exit" /\ mode = "daemon" =>
            /\ (result'.status = "ok") = (exiting /\ pc = "unixctl")
            /\ result'.status \in {"ok", "error"}]_vars
    /\ [][pc = "client" /\ pc' = "exit" =>
            IF rpc'.reply # "none"
            THEN /\ (rpc'.reply = "error") = (rpc'.cmd_error # NULL)
                 /\ (result'.status = "error") = (rpc'.cmd_error # NULL)
                 /\ (result'.status = "ok") = (rpc'.cmd_error = NULL)
                 /\ rpc'.cmd_error # NULL => out' = out
                 /\ rpc'.cmd_error = NULL =>
                        out' = out \o <<[cmd |-> 0, text |-> rpc'.cmd_result]>>
            ELSE /\ result'.status \in {"error", "killed"}
                 /\ out' = out]_vars
    /\ [](pc = "exit" => result.status # "none")

\* A client has exited with a failure status and nothing on stdout after
\* a reply that carried an error.
C19_Witness ==
    /\ pc = "exit"
    /\ rpc.sent
    /\ rpc.reply = "error"
    /\ rpc.cmd_error = "entity not found"
    /\ result.status = "error"
    /\ out = << >>

\* C21 - Output isolation: every attempt starts with all output buffers
\* empty, and an attempt that ends in a retry or in an error has destroyed
\* them; outputs are written only by an attempt whose commit was
\* TXN_SUCCESS or TXN_UNCHANGED, all at once and once per invocation: they
\* are what the run callbacks of that attempt produced, no attempt follows,
\* and a daemon's reply carries them or an error and nothing else.
C21_OutputIsolation ==
    /\ [](pc = "do_nbctl" => output = NoOutput /\ out = << >>)
    /\ [][pc = "do_nbctl" => output' = NoOutput]_vars
    /\ [](Returned /\ (retry = "true" \/ error # NULL) => output = NoOutput)
    /\ [][out' # out /\ pc \in TxnPcs =>
            /\ pc = "switch"
            /\ out = << >>
            /\ status \in {TXN_SUCCESS, TXN_UNCHANGED}
            /\ Len(out') = N
            /\ \A j \in 1..N :
                 /\ output[j] = RunOutput(argv.cmds[j])
                 /\ out'[j] = [cmd |-> j, text |-> output[j]]]_vars
    /\ [][out # << >> /\ pc \in RequestPcs \ {"replied"} =>
            hist'.attempts = hist.attempts /\ out' = out]_vars
    /\ [](out # << >> =>
            hist.attempts = hist.conflicts + hist.stale + 1)
    /\ [](pc = "replied" =>
            IF result.status = "ok" THEN result.payload = out
            ELSE result.payload = << >>)

\* The daemon has replied with the one output of the second attempt; the
\* first attempt had run the same command and was given up as stale.
C21_Witness ==
    /\ mode = "daemon"
    /\ pc = "replied"
    /\ argv.cmds = <<"create@a", "wait">>
    /\ hist.stale = 1
    /\ hist.attempts = 2
    /\ result.status = "ok"
    /\ result.payload = <<[cmd |-> 1, text |-> <<"a", "\n">>],
                          [cmd |-> 2, text |-> << >>]>>

\* C22 - Transaction lifetime: do_nbctl creates its transaction only when
\* none exists, and whenever it returns - with success, for a retry or
\* with an error - the transaction has been destroyed and the_idl_txn is
\* NULL; the_idl_txn is set only while do_nbctl is executing (or in a
\* process that the alarm ended inside do_nbctl).
C22_TransactionLifetime ==
    /\ [](Returned => the_idl_txn = NoTxn)
    /\ [](the_idl_txn.open =>
            \/ pc \in TxnPcs
            \/ pc = "exit" /\ result.status = "killed")
    /\ [][pc = "do_nbctl" => ~the_idl_txn.open /\ the_idl_txn'.open]_vars
    /\ [][~the_idl_txn.open /\ the_idl_txn'.open => pc = "do_nbctl"]_vars
    /\ [][(pc \in TxnPcs) /\ pc' \notin TxnPcs =>
            IF pc' = "exit" THEN result'.status = "killed"
            ELSE Returned' /\ the_idl_txn' = NoTxn]_vars
    /\ [][Returned => the_idl_txn' = NoTxn]_vars

\* do_nbctl has returned from its second attempt with an error of the
\* postprocess phase, after a commit, and no transaction is left.
C22_Witness ==
    /\ Returned
    /\ hist.attempts = 2
    /\ hist.conflicts = 1
    /\ status = TXN_SUCCESS
    /\ error = "postprocess failed"
    /\ the_idl_txn = NoTxn

\* C23 - Attempt scheduling: main_loop records the sequence number and
\* whether the IDL has ever connected when it is entered.  Its first
\* attempt is made in the first pass, without a change of the sequence
\* number, exactly if the IDL had connected by then; every other attempt
\* is made only in a pass that finds a sequence number other than the one
\* recorded at the attempt before, which is recorded in turn: the
\* sequence numbers of the attempts of one call strictly increase.
C23_AttemptScheduling ==
    /\ [][(pc \in {"main", "unixctl"}) /\ pc' = "ml_run" =>
            idl_ready' = idl.ever /\ seqno' = idl.seqno]_vars
    /\ [][pc = "ml_run" /\ idl'.alive =>
            /\ (pc' = "do_nbctl") = (idl_ready \/ seqno # idl'.seqno)
            /\ pc' # "do_nbctl" => pc' = "ml_block" /\ seqno' = seqno
            /\ pc' = "do_nbctl" => seqno' = idl'.seqno /\ ~idl_ready']_vars
    /\ [](idl_ready => hist.attempts = 0 /\ pc = "ml_run" /\ idl.ever)
    /\ [](pc \in RequestPcs \ {"replied"} => seqno <= idl.seqno)
    /\ [][pc = "ml_run" /\ pc' = "do_nbctl" /\ hist.attempts > 0 =>
            seqno' > seqno]_vars
    /\ [][(pc \in RequestPcs \ {"ml_run", "replied"}) => seqno' = seqno]_vars
    /\ [][hist'.attempts = hist.attempts + 1 => pc = "do_nbctl"]_vars

\* The daemon makes the second attempt of its second request: the first
\* was made at once, at the sequence number main_loop was entered with,
\* the second after the sequence number had changed.
C23_Witness ==
    /\ mode = "daemon"
    /\ nreq = 2
    /\ pc = "run"
    /\ hist.attempts = 2
    /\ hist.stale = 1
    /\ seqno = idl.seqno
    /\ seqno >= 2

C25_StaleCallback ==
    /\ [][pc = "run" /\ argv.cmds[c] = "wait" /\ snap.ver = 0 =>
            /\ Returned'
            /\ error' = NULL
            /\ retry' = "true"
            /\ the_idl_txn' = NoTxn
            /\ symtab' = EmptySymtab
            /\ output' = NoOutput
            /\ status' = TXN_UNCOMMITTED
            /\ c' = c
            /\ hist'.post = << >>
            /\ out' = << >>
            /\ srv' = srv]_vars
    /\ [](Returned /\ status = TXN_UNCOMMITTED /\ error = NULL =>
            /\ retry = "true"
            /\ the_idl_txn = NoTxn
            /\ ~hist.committed
            /\ ENABLED main_loop_return)
    /\ [][Returned /\ status = TXN_UNCOMMITTED /\ error = NULL =>
            /\ pc' \in {"ml_block", "ml_run"}
            /\ result' = result]_vars

\* The second command of a batch has declared the attempt stale after the
\* first one had created a row: do_nbctl has returned for a retry with
\* nothing committed and nothing left of the attempt.
C25_Witness ==
    /\ Returned
    /\ argv.cmds = <<"create@a", "wait">>
    /\ c = 2
    /\ hist.attempts = 1
    /\ hist.stale = 1
    /\ retry = "true"
    /\ error = NULL
    /\ status = TXN_UNCOMMITTED
    /\ symtab = EmptySymtab

\* C26 - Prerequisite phase: the prerequisite callbacks of a batch are
\* called in the order of the commands, before main_loop is entered and
\* with no transaction and no symbol table; the first one that reports an
\* error ends the invocation (the process exits with the error) or the
\* request (the daemon replies with it): the callbacks of the commands
\* after it are not called, no attempt is made and no transaction is
\* opened for the batch.
C26_PrerequisitePhase ==
    /\ [][(pc = "main" /\ mode = "direct")
          \/ (pc = "unixctl" /\ nreq' = nreq + 1) =>
            LET cmds   == argv'.cmds
                bad    == {i \in 1..Len(cmds) : cmds[i] = "prefail"}
                stop   == IF bad = {} THEN Len(cmds)
                          ELSE CHOOSE i \in bad : \A j \in bad : i <= j
                called == {i \in 1..stop : cmds[i] \in {"sync", "prefail"}}
                pre    == hist'.pre
            IN /\ {pre[k] : k \in 1..Len(pre)} = called
               /\ Len(pre) = Cardinality(called)
               /\ \A k \in 1..(Len(pre) - 1) : pre[k] < pre[k + 1]
               /\ force_wait' = (/\ argv'.opts.wait # "unset"
                                 /\ \E i \in called : cmds[i] = "sync")
               /\ ~the_idl_txn.open /\ ~the_idl_txn'.open
               /\ symtab = EmptySymtab /\ symtab' = EmptySymtab
               /\ hist'.attempts = 0
               /\ srv' = srv /\ snap' = snap
               /\ IF bad = {}
                  THEN pc' = "ml_run"
                  ELSE /\ pc' = IF pc = "main" THEN "exit" ELSE "replied"
                       /\ result'.status = "error"
                       /\ result'.text = "prerequisite failed"
                       /\ result'.payload = << >>]_vars
    /\ [](pc # "main" /\ (\E i \in 1..Len(argv.cmds) : argv.cmds[i] = "prefail")
          /\ (mode = "direct" \/ pc # "exit") =>
            /\ pc \in {"exit", "replied"}
            /\ hist.attempts = 0
            /\ ~the_idl_txn.open
            /\ ~hist.committed
            /\ result.text = "prerequisite failed")

\* The daemon has replied to its second request with the error of the
\* first command's prerequisite callback; the callback of sync, the
\* command after it, was not called, so force_wait is not set.
C26_Witness ==
    /\ mode = "daemon"
    /\ nreq = 2
    /\ pc = "replied"
    /\ argv.cmds = <<"prefail", "sync">>
    /\ argv.opts.wait = "sb"
    /\ hist.pre = <<1>>
    /\ ~force_wait
    /\ result.status = "error"
    /\ result.text = "prerequisite failed"

\* C27 - Postprocess phase: the postprocess callbacks are called only in
\* an attempt whose commit returned TXN_SUCCESS or TXN_UNCHANGED, never in
\* one that is retried or whose commit failed; they are called after the
\* commit, in the order of the commands, up to the first one that reports
\* an error, and before any output is written: outputs are written only
\* once every postprocess callback of the batch has been called without
\* an error.
C27_PostprocessPhase ==
    /\ [][pc = "postprocess" =>
            LET cmds   == argv.cmds
                bad    == {i \in 1..Len(cmds) : cmds[i] = "postfail"}
                stop   == IF bad = {} THEN Len(cmds)
                          ELSE CHOOSE i \in bad : \A j \in bad : i <= j
                called == {i \in 1..stop : cmds[i] \in {"create@a", "postfail"}}
                post   == hist'.post
            IN IF status \in {TXN_SUCCESS, TXN_UNCHANGED}
               THEN /\ {post[k] : k \in 1..Len(post)} = called
                    /\ Len(post) = Cardinality(called)
                    /\ \A k \in 1..(Len(post) - 1) : post[k] < post[k + 1]
                    /\ IF bad = {}
                       THEN pc' = "switch" /\ error' = NULL
                       ELSE Returned' /\ error' = "postprocess failed"
                            /\ retry' # "true"
               ELSE /\ post = << >>
                    /\ pc' = "switch"
                    /\ error' = NULL]_vars
    /\ [][hist'.post # hist.post =>
            /\ pc = "postprocess"
            /\ status \in {TXN_SUCCESS, TXN_UNCHANGED}
            /\ out = << >> /\ out' = << >>]_vars
    /\ [](hist.post # << >> =>
            /\ status \in {TXN_SUCCESS, TXN_UNCHANGED}
            /\ retry # "true"
            /\ hist.attempts = hist.conflicts + hist.stale + 1)
    /\ [](status \in {TXN_TRY_AGAIN, TXN_ERROR, TXN_ABORTED, TXN_NOT_LOCKED}
          \/ status = TXN_UNCOMMITTED => hist.post = << >>)
    /\ [](out # << >> =>
            /\ \A i \in 1..N : argv.cmds[i] # "postfail"
            /\ \A i \in 1..N : argv.cmds[i] = "create@a" =>
                   \E k \in 1..Len(hist.post) : hist.post[k] = i)

\* A commit has succeeded and the postprocess callbacks of both commands
\* were called in their order; the second reported an error, which
\* do_nbctl returns, and no output was written.
C27_Witness ==
    /\ Returned
    /\ argv.cmds = <<"create@a", "postfail">>
    /\ status = TXN_SUCCESS
    /\ hist.post = <<1, 2>>
    /\ error = "postprocess failed"
    /\ out = << >>

\* C28 - Retry from scratch: between two attempts there is no transaction,
\* no symbol and no output; every attempt, the first as any later one,
\* starts with a new transaction without mutations and a new symbol table
\* without symbols, at the first command; what the attempt holds when it
\* runs command c, and when it commits, is what the commands of the batch
\* before c, or all of them, have proposed, declared and created in this
\* attempt, wherever the attempt before had stopped.
C28_RetryFromScratch ==
    /\ [](pc = "do_nbctl" =>
            /\ the_idl_txn = NoTxn
            /\ symtab = EmptySymtab
            /\ output = NoOutput)
    /\ [][pc = "do_nbctl" =>
            /\ the_idl_txn'.open
            /\ the_idl_txn'.muts = {}
            /\ symtab' = EmptySymtab
            /\ output' = NoOutput
            /\ c' = 1
            /\ status' = TXN_UNCOMMITTED
            /\ next_cfg' = 0
            /\ error' = NULL
            /\ hist'.attempts = hist.attempts + 1]_vars
    /\ [](pc \in {"run", "symtab", "commit"} =>
            LET upto == IF pc = "run" THEN c - 1 ELSE N
                made == {j \in 1..upto : argv.cmds[j] = "create@a"}
            IN /\ the_idl_txn.muts = made
               /\ symtab["a"].created = (made # {})
               /\ symtab["a"].declared = (made # {})
               /\ ~symtab["a"].strong_ref
               /\ symtab["b"] = NoSymbol
               /\ Cardinality(made) <= 1
               /\ \A j \in 1..N :
                    output[j] = IF j <= upto THEN RunOutput(argv.cmds[j])
                                ELSE << >>)

\* The second attempt of a batch is about to commit: the first attempt
\* had created the row named a and was stopped by its second command; the
\* second attempt has created the row again, without an error about a row
\* id given twice, and holds that one insertion.
C28_Witness ==
    /\ pc = "commit"
    /\ argv.cmds = <<"create@a", "wait">>
    /\ hist.attempts = 2
    /\ hist.stale = 1
    /\ the_idl_txn.muts = {1}
    /\ symtab["a"].created
    /\ error = NULL

\* C29 - Generation counter: the transaction of an attempt asks for the
\* increment of nb_cfg exactly if the wait mode is sb or hv; it does so
\* from its creation, before the run callback of the first command is
\* called, and the request is not changed afterwards.  With wait mode
\* none no attempt asks for an increment, nb_cfg is never incremented and
\* no wait target is set.
C29_GenerationCounter ==
    /\ [][pc = "do_nbctl" =>
            /\ (the_idl_txn'.inc # "none") = (wait_type # NBCTL_WAIT_NONE)
            /\ (the_idl_txn'.inc # "none") = (argv.opts.wait # "unset")
            /\ c' = 1
            /\ the_idl_txn'.muts = {}
            /\ output' = NoOutput]_vars
    /\ [](the_idl_txn.open =>
            (the_idl_txn.inc # "none") = (argv.opts.wait # "unset"))
    /\ [][the_idl_txn.open /\ the_idl_txn'.open =>
            the_idl_txn'.inc = the_idl_txn.inc]_vars
    /\ [](argv.opts.wait = "unset" =>
            /\ the_idl_txn.inc = "none"
            /\ ~Increments(the_idl_txn)
            /\ srv.nb_cfg = 0
            /\ next_cfg = 0
            /\ hist.V = 0
            /\ ~hist.waited)

\* The second attempt of an invocation with --wait=hv is about to run its
\* first command, and its transaction holds the request for the increment.
C29_Witness ==
    /\ pc = "run"
    /\ c = 1
    /\ hist.attempts = 2
    /\ wait_type = NBCTL_WAIT_HV
    /\ the_idl_txn.inc = "lazy"
    /\ the_idl_txn.muts = {}

\* C30 - sync: in a batch whose prerequisite phase passes, force_wait is
\* set, before main_loop is entered, exactly if the batch contains sync
\* and the wait mode is sb or hv.  Every attempt of such a batch forces
\* the increment of nb_cfg, so its commit is never TXN_UNCHANGED, and
\* after TXN_SUCCESS the convergence wait is entered, also when the
\* transaction holds nothing but the increment; the batch succeeds only
\* after that wait.  With wait mode none sync sets nothing: no increment
\* is asked for, a batch of sync commands commits as TXN_UNCHANGED, and
\* no wait is entered.
C30_SyncForcesWait ==
    /\ [](pc \in RequestPcs \ {"replied"} =>
            force_wait = (/\ argv.opts.wait # "unset"
                          /\ \E i \in 1..N : argv.cmds[i] = "sync"))
    /\ [](the_idl_txn.open =>
            the_idl_txn.inc =
                IF argv.opts.wait = "unset" THEN "none"
                ELSE IF \E i \in 1..N : argv.cmds[i] = "sync" THEN "force"
                ELSE "lazy")
    /\ [][pc = "commit" /\ pc' # "commit" =>
            IF force_wait THEN status' # TXN_UNCHANGED
            ELSE snap.nb => status' = TXN_UNCHANGED]_vars
    /\ [][pc = "switch" /\ force_wait /\ status = TXN_SUCCESS =>
            pc' = "wait_run" /\ hist'.waited]_vars
    /\ [](Returned /\ force_wait /\ error = NULL /\ retry = "false" =>
            /\ status = TXN_SUCCESS
            /\ hist.waited
            /\ next_cfg >= 1)
    /\ [](pc \in RequestPcs /\ argv.opts.wait = "unset" =>
            /\ ~force_wait
            /\ the_idl_txn.inc = "none"
            /\ ~hist.waited
            /\ pc \notin {"wait_run", "wait_block"})

\* A batch of one sync command under --wait=sb is blocked in the
\* convergence wait: NB_Global existed, no command proposed a mutation,
\* and the commit of the forced increment alone was TXN_SUCCESS.
C30_Witness ==
    /\ pc = "wait_block"
    /\ argv.cmds = <<"sync">>
    /\ argv.opts.wait = "sb"
    /\ force_wait
    /\ the_idl_txn.inc = "force"
    /\ ~the_idl_txn.nb_inserted
    /\ the_idl_txn.muts = {}
    /\ status = TXN_SUCCESS
    /\ next_cfg = 1

\* C31 - Orphaned symbols: the validation of the symbol table ends the
\* attempt only for a symbol that no command created; when every declared
\* symbol is created the attempt goes on to commit with its transaction,
\* symbol table, outputs and error untouched, whatever references were
\* recorded, and exactly the created symbols without a strong reference
\* (none at all, or a weak one only) have been warned about.
C31_OrphanWarning ==
    [][(pc = "symtab") /\ pc' # "symtab" =>
          IF \A x \in Symbols : symtab[x].declared => symtab[x].created
          THEN /\ pc' = "commit"
               /\ error' = NULL
               /\ UNCHANGED <<the_idl_txn, symtab, output, srv>>
               /\ hist'.warned = {x \in Symbols : /\ symtab[x].created
                                                   /\ ~symtab[x].strong_ref}
          ELSE /\ Returned'
               /\ error' \in NeverCreatedErrors
               /\ \E x \in Symbols :
                     /\ ~symtab[x].created
                     /\ error' = NeverCreated(x)]_vars

\* The attempt is about to commit a batch that created a and holds only a
\* weak reference to it.
C31_Witness ==
    /\ pc = "commit"
    /\ symtab["a"].created
    /\ symtab["a"].weak_ref
    /\ ~symtab["a"].strong_ref
    /\ hist.warned = {"a"}

\* C32 - Termination of main_loop: with a connection that stays alive and
\* comes up, a database that other clients change finitely often and
\* consumers that catch up, main_loop, once entered, returns: the
\* invocation ends, and not by a lost connection unless the IDL is dead.
\* After an attempt that ended in RETRY main_loop blocks if the sequence
\* number is the one the attempt started with, and runs the IDL again
\* otherwise; it leaves the block only to run the IDL.
C32_Termination ==
    /\ (pc = "ml_run" ~> pc = "exit")
    /\ [](pc = "exit" /\ idl.alive =>
            /\ result.status \in {"ok", "error"}
            /\ result.text # DatabaseConnectionFailed)
    /\ [][(pc = "ml_ret") /\ error = NULL /\ retry = "true" =>
            pc' = IF seqno = idl.seqno THEN "ml_block" ELSE "ml_run"]_vars
    /\ [][(pc = "ml_block") /\ pc' # "ml_block" => pc' = "ml_run"]_vars

\* main_loop has returned after a stale attempt, an attempt that met a
\* conflict, and a convergence wait.
C32_Witness ==
    /\ pc = "exit"
    /\ result.status = "ok"
    /\ hist.stale > 0
    /\ hist.conflicts > 0
    /\ hist.waited

C34_PostprocessError ==
    /\ [][(pc = "postprocess") /\ status \in PostprocessStatuses
                               /\ FirstPostError(argv.cmds, 1) # 0 =>
            /\ Returned'
            /\ error' = PostprocessError(argv.cmds[FirstPostError(argv.cmds, 1)])
            /\ hist'.post # << >>
            /\ hist'.post[Len(hist'.post)] = FirstPostError(argv.cmds, 1)
            /\ out' = out
            /\ out = << >>
            /\ ~hist'.waited
            /\ retry' # "true"
            /\ ~the_idl_txn'.open
            /\ srv' = srv
            /\ hist'.applied = hist.applied
            /\ (status = TXN_SUCCESS =>
                   hist.committed /\ hist.applied = the_idl_txn.muts)]_vars
    /\ [][error # "postprocess failed" /\ error' = "postprocess failed" =>
            pc = "postprocess" /\ status \in PostprocessStatuses]_vars
    /\ [][Returned /\ error = "postprocess failed" =>
            /\ pc' = "exit"
            /\ result'.status = "error"
            /\ result'.text = error
            /\ srv' = srv]_vars

\* The first command's postprocess callback failed after the commit had
\* created the row of the second command, whose callback was not called.
C34_Witness ==
    /\ Returned
    /\ error = "postprocess failed"
    /\ argv.cmds = <<"postfail", "create@a">>
    /\ hist.post = <<1>>
    /\ hist.committed
    /\ hist.applied = {2}

\* C35 - Prerequisites once: the prerequisite callbacks of an invocation
\* or request are called by main or server_cmd_run, before main_loop is
\* entered, and by no other step: during all the attempts the calls made
\* are those of the one pass of run_prerequisites over the commands, and
\* the configuration, force_wait included, is what that pass left.
C35_PrerequisitesOnce ==
    /\ [][hist'.pre # hist.pre => pc \in {"main", "unixctl", "replied"}]_vars
    /\ [][Config' # Config => pc \in {"main", "unixctl"}]_vars
    /\ [](pc \in RequestPcs \ {"replied"} =>
            /\ hist.pre = PrerequisitesRun(argv.cmds, 1)
            /\ run_prerequisites_error(argv.cmds) = NULL
            /\ force_wait = (/\ wait_type # NBCTL_WAIT_NONE
                             /\ \E i \in 1..Len(argv.cmds) :
                                   argv.cmds[i] = "sync"))
    /\ [](hist.attempts > 0 /\ hist.pre # << >> =>
            \A i, j \in 1..Len(hist.pre) : i < j => hist.pre[i] < hist.pre[j])

\* A third attempt of a batch with two syncs is running: each prerequisite
\* callback has been called once.
C35_Witness ==
    /\ pc = "run"
    /\ hist.attempts = 3
    /\ argv.cmds = <<"sync", "sync">>
    /\ hist.pre = <<1, 2>>
    /\ force_wait

\* C36 - Outcome of an attempt: when do_nbctl returns, either the error is
\* set and *retry has not been assigned (FATAL), or the error is NULL and
\* *retry has been assigned, by this call, true (RETRY) or false (done);
\* a run callback that leaves an error ends the attempt with that error
\* whether or not it has asked for another attempt as well.
C36_AttemptOutcome ==
    /\ [](Returned => \/ error # NULL /\ retry = "unset"
                      \/ error = NULL /\ retry \in {"true", "false"})
    /\ [][~Returned /\ Returned' => retry = "unset" /\ pc \in TxnPcs]_vars
    /\ [][(pc = "run") /\ RunError(argv.cmds[c], symtab) # NULL =>
            /\ Returned'
            /\ error' = RunError(argv.cmds[c], symtab)
            /\ retry' = "unset"
            /\ hist'.stale = hist.stale]_vars
    /\ [][Returned =>
            pc' = IF error = NULL /\ retry = "true"
                  THEN (IF seqno = idl.seqno THEN "ml_block" ELSE "ml_run")
                  ELSE "exit"]_vars

\* The run callback of the second command left an error and asked for
\* another attempt, and do_nbctl has returned the error.
C36_Witness ==
    /\ Returned
    /\ Len(argv.cmds) = 2
    /\ c = 2
    /\ argv.cmds[2] = "failwait"
    /\ RunTryAgain(argv.cmds[2], snap)
    /\ error = "entity not found"
    /\ retry = "unset"

\* C37 - Counter before deadline: a pass of the wait loop ends the wait
\* with success exactly if the refreshed snapshot has the NB_Global row
\* and the configured counter has reached next_cfg, whatever the state of
\* the timer, and goes on to block otherwise; "timeout expired" is
\* returned only on leaving a block with the timer expired.
C37_CounterBeforeDeadline ==
    /\ [][(pc = "wait_run") /\ pc' # "wait_run" =>
            IF snap'.nb /\ cur_cfg(snap') >= next_cfg
            THEN /\ Returned'
                 /\ error' = NULL
                 /\ retry' = "false"
            ELSE /\ pc' = "wait_block"
                 /\ error' = NULL]_vars
    /\ [][error # TimeoutExpired /\ error' = TimeoutExpired =>
            pc = "wait_block" /\ wait_timeout = "expired"]_vars
    /\ [][(pc = "wait_block") /\ pc' # "wait_block" =>
            IF wait_timeout = "expired"
            THEN Returned' /\ error' = TimeoutExpired
            ELSE pc' = "wait_run" /\ error' = NULL]_vars

\* The timer expired while main_loop was blocked before the second
\* attempt; that attempt committed, the wait found the counter at its
\* target in its first pass, and do_nbctl has returned success.
C37_Witness ==
    /\ Returned
    /\ error = NULL
    /\ retry = "false"
    /\ hist.waited
    /\ hist.stale > 0
    /\ wait_timeout = "expired"

\* C38 - Warm snapshot: the control server runs, and so a run or exit
\* request is handled, only once the IDL has connected; main_loop of a
\* request therefore starts with idl_ready set and the current sequence
\* number, and its first pass, with the IDL alive, calls do_nbctl without
\* blocking.
C38_WarmSnapshot ==
    /\ [](pc = "unixctl" \/ Serving => idl.ever)
    /\ [][nreq' # nreq \/ exiting' # exiting =>
            pc = "unixctl" /\ idl.ever]_vars
    /\ [][(pc = "unixctl") /\ pc' = "ml_run" =>
            idl_ready' /\ seqno' = idl.seqno]_vars
    /\ [][(pc = "ml_run") /\ hist.attempts = 0 /\ idl'.alive =>
            pc' = "do_nbctl"]_vars
    /\ [][(pc = "server_loop") /\ ~idl'.ever => pc' # "unixctl"]_vars

\* The second request is at its first call of do_nbctl, which no change
\* of the database has preceded.
C38_Witness ==
    /\ mode = "daemon"
    /\ pc = "do_nbctl"
    /\ nreq = 2
    /\ hist.attempts = 0
    /\ srv.ver = 0
    /\ idl.seqno = 1


\* C39 as stated: an ls-add without --add-duplicate on a table of switches
\* with names of their own leaves a table of switches with names of their
\* own; an ls-add of a name there is fails and adds nothing, or with
\* --may-exist succeeds and adds nothing; both options together, or either
\* without a name, is an error and adds nothing.
C39_AsStated ==
    [][(c' # c) /\ ctx'.argv[1] = "ls-add" =>
        LET old    == ctx.idl.ls
            new    == ctx'.idl.ls
            named  == Len(ctx'.argv) = 2
            may    == "--may-exist" \in ctx'.options
            dup    == "--add-duplicate" \in ctx'.options
            exists == named /\ \E i \in 1..Len(old) : old[i].name = ctx'.argv[2]
            OwnNames(rows) == \A i, j \in 1..Len(rows) :
                                 rows[i].name = rows[j].name => i = j
        IN /\ (~dup /\ OwnNames(old)) => OwnNames(new)
           /\ (exists /\ ~dup /\ ~may) => (ctx'.error # NULL /\ new = old)
           /\ (exists /\ ~dup /\ may) => (ctx'.error = NULL /\ new = old)
           /\ ((may /\ dup) \/ ((may \/ dup) /\ ~named)) =>
                  (ctx'.error # NULL /\ new = old)
    ]_vars

\* C39: an ls-add without --add-duplicate never gives a second switch a
\* name that is not empty; an ls-add of a name there is fails and adds
\* nothing, or with --may-exist succeeds and adds nothing; both options
\* together, or either without a name, is an error and adds nothing; every
\* other ls-add appends one switch, with the name given or, given none,
\* with the empty name, whatever switches of that name there are.
C39_SwitchNames ==
    [][(c' # c) /\ ctx'.argv[1] = "ls-add" =>
        LET old    == ctx.idl.ls
            new    == ctx'.idl.ls
            named  == Len(ctx'.argv) = 2
            may    == "--may-exist" \in ctx'.options
            dup    == "--add-duplicate" \in ctx'.options
            exists == named /\ \E i \in 1..Len(old) : old[i].name = ctx'.argv[2]
            OwnNames(rows) == \A i, j \in 1..Len(rows) :
                                 (rows[i].name = rows[j].name
                                  /\ rows[i].name # "") => i = j
            bad    == (may /\ dup) \/ ((may \/ dup) /\ ~named)
        IN /\ (~dup /\ OwnNames(old)) => OwnNames(new)
           /\ (exists /\ ~dup /\ ~may) => (ctx'.error # NULL /\ new = old)
           /\ (exists /\ ~dup /\ may) => (ctx'.error = NULL /\ new = old)
           /\ bad => (ctx'.error # NULL /\ new = old)
           /\ (~bad /\ (dup \/ ~exists)) =>
                  /\ ctx'.error = NULL
                  /\ new = Append(old, [name |-> IF named THEN ctx'.argv[2]
                                                  ELSE "",
                                         acls |-> << >>])
           /\ (~named /\ ~bad) => Len(new) = Len(old) + 1
    ]_vars

\* sw0 was there, and --may-exist ls-add sw0 returned without an error
\* and without a second sw0.
C39_Witness ==
    /\ ctx.argv = <<"ls-add", "sw0">>
    /\ ctx.options = {"--may-exist"}
    /\ ctx.error = NULL
    /\ c = 2
    /\ the_idl_txn.muts = {}
    /\ Cardinality({i \in 1..Len(ctx.idl.ls) : ctx.idl.ls[i].name = "sw0"}) = 1

\* C40: no switch and no port group holds two ACLs of one direction,
\* priority and match.  An acl-add changes at most one container, the one
\* it names, and only by appending its ACL to a list that has none of that
\* direction, priority and match; where the list has one, the command
\* fails with "Same ACL already existed" without --may-exist and returns
\* without an error with it, the list as it was; a command that fails
\* changes no list.
C40_AclUniqueness ==
    /\ [](\A t \in {"ls", "pg"} : \A r \in 1..Len(ctx.idl[t]) :
            \A i, j \in 1..Len(ctx.idl[t][r].acls) :
               LET a == ctx.idl[t][r].acls[i]
                   b == ctx.idl[t][r].acls[j]
               IN (a.direction = b.direction /\ a.priority = b.priority
                   /\ a.match = b.match) => i = j)
    /\ [][(c' # c) /\ ctx'.argv[1] = "acl-add" =>
           LET a     == ctx'.argv
               dir   == IF a[3] = "from-lport" THEN "from-lport" ELSE "to-lport"
               acl   == [direction |-> dir, priority |-> a[4], match |-> a[5],
                         action |-> a[6]]
               Cont  == {<<"ls", r>> : r \in 1..Len(ctx.idl.ls)}
                           \cup {<<"pg", r>> : r \in 1..Len(ctx.idl.pg)}
               Has(k) == \E i \in 1..Len(ctx.idl[k[1]][k[2]].acls) :
                           LET b == ctx.idl[k[1]][k[2]].acls[i]
                           IN /\ b.direction = dir
                              /\ b.priority = a[4]
                              /\ b.match = a[5]
               grown == {k \in Cont : ctx'.idl[k[1]][k[2]] # ctx.idl[k[1]][k[2]]}
               same  == "Same ACL already existed on the ls."
           IN /\ Len(ctx'.idl.ls) = Len(ctx.idl.ls)
              /\ Len(ctx'.idl.pg) = Len(ctx.idl.pg)
              /\ Cardinality(grown) <= 1
              /\ \A k \in grown :
                    /\ ctx.idl[k[1]][k[2]].name = a[2]
                    /\ ctx'.idl[k[1]][k[2]] =
                          [ctx.idl[k[1]][k[2]] EXCEPT !.acls = Append(@, acl)]
                    /\ ~Has(k)
                    /\ ctx'.error = NULL
              /\ ctx'.error # NULL => grown = {}
              /\ ctx'.error = same =>
                    /\ "--may-exist" \notin ctx'.options
                    /\ \E k \in Cont : ctx.idl[k[1]][k[2]].name = a[2] /\ Has(k)
              /\ (ctx'.error = NULL /\ grown = {}) =>
                    /\ "--may-exist" \in ctx'.options
                    /\ \E k \in Cont : ctx.idl[k[1]][k[2]].name = a[2] /\ Has(k)
       ]_vars

\* sw0 held an ACL, and --may-exist acl-add of its like returned without
\* an error, the list as it was, the new row left in the transaction.
C40_Witness ==
    /\ ctx.argv = <<"acl-add", "sw0", "t", 1, "ip4", "allow">>
    /\ ctx.options = {"--may-exist"}
    /\ ctx.error = NULL
    /\ c = 2
    /\ Len(ctx.idl.ls[1].acls) = 1
    /\ the_idl_txn.muts = {1}

====
